---- MODULE Spec2Model ----
(***************************************************************************)
(* Market-data gateway core (quant_system/market_gateway): the session     *)
(* state machine, connect / disconnect / subscribe / unsubscribe, the      *)
(* exponential-backoff reconnect loop with subscription restore, the       *)
(* SDK-thread callbacks and the tick ingest pipeline.                      *)
(*                                                                         *)
(* Execution contexts: the dispatch loop (asyncio, single thread) and the  *)
(* native SDK callback thread.  A coroutine is split into one action per   *)
(* stretch between two points where it can really suspend (awaited state   *)
(* listeners, asyncio.sleep, the login wait).  The SDK thread runs in      *)
(* parallel with the loop thread, so its callbacks may also fall between   *)
(* two statements of one loop stretch; that matters between Init() and     *)
(* _login_event.clear(), which is why that stretch is cut in two.          *)
(*                                                                         *)
(* Time is in seconds.  Prices and volumes are small integers.             *)
(*                                                                         *)
(* Specifications, all over the same variables and actions:                *)
(*   Spec           session, subscriptions, one reconnect loop and restore *)
(*   SpecSession    session and up to MaxReconnectTasks reconnect loops    *)
(*   SpecSub        subscribe / unsubscribe with the history of calls      *)
(*   SpecReconnect  the reconnect loop under several backoff settings      *)
(*   LiveSpec       SpecReconnect with a fair loop and a fair SDK thread   *)
(*   SpecTick       the tick ingest pipeline                               *)
(*   SpecState      _set_state and the state listeners                     *)
(*   SpecFanout     ticks through the queue, the cache and the callbacks   *)
(*   SpecValidate   TickData.validate on its own                           *)
(*   SpecAlert      the reconnect loop with an alert sink wired            *)
(*   SpecBatch      subscribe / unsubscribe with the SDK calls observed    *)
(*   SpecSanitize   the sensitive-key registry and sanitize_context        *)
(*   SpecFilter     ticks that fail validation or the order check          *)
(*   SpecCache      the fan-out with a small ring-buffer cache             *)
(*   SpecNative     the subscriptions of the native handle of the moment   *)
(*   SpecBars       completed bars and the bar callbacks                   *)
(*   SpecListeners  _set_state called from several tasks                   *)
(* The observation variables ret, rc_ret, tick_ev, obs and san record what *)
(* a step returned or did; they are never read by the gateway's actions    *)
(* (san also holds the context that is handed to sanitize_context).        *)
(***************************************************************************)
EXTENDS Integers, Sequences, FiniteSets, TLC

\* ------------------------------------------------------------------ bounds
NumSymbols == 2
MaxReconnectTasks == 2
MaxAttempts == 10
MaxTicks == 2
MaxCallbacks == 2
QueueCapacity == 1
CacheCapacity == 1
MaxBarTicks == 3
MaxSetStateCalls == 2

\* ------------------------------------------------------- program constants
SUBSCRIBE_BATCH_SIZE == 100
DEFAULT_QUEUE_SIZE == 10000
TICK_CACHE_SIZE == 150000
TIMESTAMP_STALE_THRESHOLD_SECONDS == 3600
\* the offset of CHINA_TZ (Asia/Shanghai) from UTC, in seconds
CHINA_UTC_OFFSET_SECONDS == 28800

\* ------------------------------------------------------------- value sets
Symbols == 1..NumSymbols
EmptySymbol == 0
Wildcard == -1
Patterns == Symbols \cup {Wildcard}
NoError == "None"
NoHandle == "None"
Handle == "MdApi"
NoTime == -1

\* GatewayState (base.py 45-61)
GatewayStates == {"DISCONNECTED", "CONNECTING", "CONNECTED", "SUBSCRIBING",
                  "RUNNING", "RECONNECTING", "ERROR", "STOPPED"}

\* TickData._VALID_EXCHANGES
VALID_EXCHANGES == {"CFFEX", "SHFE", "DCE", "CZCE", "INE", "GFEX"}

VARIABLES
  config,                \* the validated config record, whether the SDK can be imported,
                         \* and (queue_size) the capacity the tick queue is built with
  observe,               \* which observations are recorded: "events", "history",
                         \* "backoff", "calls"
  state,                 \* AbstractGateway._state
  subscribed_symbols,    \* AbstractGateway._subscribed_symbols
  bar_generators,        \* CtpMarketGateway._bar_generators (dict symbol -> period -> generator)
  last_tick_time,        \* CtpMarketGateway._last_tick_time (dict symbol -> timestamp)
  api,                   \* CtpMarketGateway._api
  login_event,           \* CtpMarketGateway._login_event (is it set?)
  login_error,           \* CtpMarketGateway._login_error
  reconnect_interval,    \* CtpMarketGateway._reconnect_interval
  consecutive_failures,  \* CtpMarketGateway._consecutive_failures
  loop,                  \* CtpMarketGateway._loop (has connect captured it?)
  tick_queue,            \* AbstractGateway._tick_queue
  tick_cache,            \* CtpMarketGateway._tick_cache
  last_tick_at,          \* AbstractGateway._last_tick_at
  pending,               \* _process_tick_async coroutines scheduled on the loop, in order
  state_callbacks,       \* AbstractGateway._state_callbacks (k stands for the k-th registered)
  notify,                \* the _set_state call that is going through the listeners
  tick_callbacks,        \* AbstractGateway._tick_callbacks (k stands for the k-th registered)
  inflight,              \* _process_tick_async coroutines that are in their callback loop
  sdk,                   \* progress of the native SDK thread of the current handle
  healthy,               \* environment: the front answers logins successfully from now on
  caller,                \* the application task calling the public API
  rtask,                 \* the _do_reconnect coroutines scheduled on the loop
  ret,                   \* observation: outcome of the API call that just returned
  rc_ret,                \* observation: the _do_reconnect that just returned
  tick_ev,               \* observation: what the tick handler that just ran did
  obs,                   \* observation: attempts since the last login, last slept interval
  alert_callback,        \* CtpMarketGateway._alert_callback
  runtime_sensitive_keys,\* _sensitive._runtime_sensitive_keys (module level)
  set_state_calls,       \* the _set_state coroutines suspended in a listener
  bar_callbacks,         \* AbstractGateway._bar_callbacks (k stands for the k-th registered)
  bar_inflight,          \* the notify_callbacks coroutines of _on_bar_complete on the loop
  san                    \* observation: the context that was just sanitized, and the result

gatewayVars == <<state, subscribed_symbols, bar_generators, last_tick_time,
                 api, login_event, login_error, reconnect_interval,
                 consecutive_failures, loop>>

tickVars == <<tick_queue, tick_cache, last_tick_at, pending>>

\* the consumers' side: state listeners and tick callbacks
consumerVars == <<state_callbacks, notify, tick_callbacks, inflight>>

\* the sensitive-key registry and what the sanitization helper just did
sanitizerVars == <<runtime_sensitive_keys, san>>

\* the bar callbacks and the notifications of completed bars under way
barVars == <<bar_callbacks, bar_inflight>>

vars == <<config, observe, gatewayVars, tickVars, consumerVars, sdk, healthy,
          caller, rtask, ret, rc_ret, tick_ev, obs, sanitizerVars,
          alert_callback, barVars, set_state_calls>>

\* the _do_reconnect coroutines that can be scheduled at the same time
RTasks == 1..config.loops

\* ---------------------------------------------------------------- helpers
Min(a, b) == IF a < b THEN a ELSE b
\* a maximum that never takes the new value
KeepFirst(a, b) == a
Max(a, b) == IF a > b THEN a ELSE b
Abs(a) == IF a < 0 THEN -a ELSE a

RECURSIVE Pow(_, _)
Pow(b, k) == IF k = 0 THEN 1 ELSE b * Pow(b, k - 1)

\* a dict from which nothing is removed
NothingPopped(d, ss) == d

\* dict.pop(key, None) for every key of ks
DictPop(d, ks) == [k \in (DOMAIN d) \ ks |-> d[k]]

\* d[key] = value
DictSet(d, key, value) ==
  [k \in (DOMAIN d) \cup {key} |-> IF k = key THEN value ELSE d[k]]

\* AbstractGateway.is_connected
is_connected == state \in {"CONNECTED", "SUBSCRIBING", "RUNNING"}

\* CtpMarketGateway._all_symbols: created empty and never filled in the source
all_symbols == {}

\* fnmatch.fnmatch(s, pattern) for the one pattern of the model, "*"
fnmatch(s, p) == p = Wildcard

\* CtpMarketGateway._expand_wildcards: patterns are matched against
\* _all_symbols, literals are kept, the result is de-duplicated
expand_wildcards(symbols) ==
  UNION {IF p = Wildcard THEN {s \in all_symbols : fnmatch(s, p)} ELSE {p}
         : p \in symbols}

\* one _BarGenerator as constructed: no current bar, no last bar time
NewBarGenerator == [current_bar |-> <<>>, last_bar_time |-> NoTime]

\* CtpMarketGateway._init_bar_generator for every symbol of ss
init_bar_generators(d, ss) ==
  [s \in (DOMAIN d) \cup ss |->
     IF s \in DOMAIN d THEN d[s]
     ELSE [MINUTE_1 |-> NewBarGenerator, MINUTE_5 |-> NewBarGenerator]]

\* the orders in which list(set(...)) can enumerate a set
Perms(S) ==
  {f \in [1..Cardinality(S) -> S] :
     \A i, j \in 1..Cardinality(S) : i # j => f[i] # f[j]}

\* _SUBSCRIBE_BATCH_SIZE (line 91) is 100; a configuration with a batch_size
\* runs the same loop with that many symbols per SDK call, so that a handful
\* of symbols already needs several calls
batch_size ==
  IF "batch_size" \in DOMAIN config THEN config.batch_size ELSE SUBSCRIBE_BATCH_SIZE

\* the batches are taken without a limit, all symbols in one call
Unbatched(seq, b) == {seq[k] : k \in 1..Len(seq)}

NumBatches(n) == (n + batch_size - 1) \div batch_size

\* new_symbols[i : i + _SUBSCRIBE_BATCH_SIZE] for the b-th batch (b = 1, 2, ...)
Batch(seq, b) ==
  {seq[k] : k \in ((b - 1) * batch_size + 1)..Min(b * batch_size, Len(seq))}

\* CtpMarketGateway._do_subscribe over all batches: the triples
\* <<symbols of the succeeding batches, number of SDK calls issued, the
\* symbols of each call>>.
\* Without a native handle the SDK is not called and every batch succeeds.
BatchResults(handle, new_symbols) ==
  IF handle = NoHandle THEN {<<new_symbols, 0, <<>> >>}
  ELSE LET nb == NumBatches(Cardinality(new_symbols))
       IN {<<UNION {Batch(seq, b) : b \in ok}, nb, [b \in 1..nb |-> Batch(seq, b)]>> :
             seq \in Perms(new_symbols), ok \in SUBSET (1..nb)}

\* line 344 without the filter: every requested symbol counts as new
AllRequested(subs, expanded) == expanded

\* line 344: the requested symbols that are not subscribed yet
NewSymbols(subs, expanded) == expanded \ subs

\* lines 351-352 without the check
NeverExceeded(subs, new_symbols) == FALSE

\* lines 351-352: total = len(_subscribed_symbols) + len(new_symbols) is over
\* max_subscriptions
LimitExceeded(subs, new_symbols) ==
  Cardinality(subs) + Cardinality(new_symbols) > config.max_subscriptions

\* CtpMarketGateway.subscribe, lines 341-380, after the SUBSCRIBING
\* transition: the possible outcomes given the subscribed set subs
SubscribeOutcomes(subs, handle, symbols) ==
  LET expanded == expand_wildcards(symbols)
      new_symbols == NewSymbols(subs, expanded)
  IN IF new_symbols = {}
     THEN {[kind |-> "skip", success |-> {}, calls |-> 0, new |-> {},
            batches |-> <<>>]}
     ELSE IF LimitExceeded(subs, new_symbols)
     THEN {[kind |-> "limit", success |-> {}, calls |-> 0, new |-> new_symbols,
            batches |-> <<>>]}
     ELSE {[kind |-> "done", success |-> r[1], calls |-> r[2], new |-> new_symbols,
            batches |-> r[3]]
             : r \in BatchResults(handle, new_symbols)}

\* the state after the outcome o of subscribe's body on subscribed set subs
ApplySubscribe(subs, o) ==
  /\ subscribed_symbols' = IF o.kind = "done" THEN subs \cup o.success ELSE subs
  /\ bar_generators' = IF o.kind = "done"
                       THEN init_bar_generators(bar_generators, o.success)
                       ELSE bar_generators
  /\ state' = IF o.kind = "limit" THEN state ELSE "RUNNING"

\* no coroutine is between two statements of an uninterruptible stretch
LoopFree ==
  /\ caller.pc # "connect_clear"
  /\ \A t \in RTasks : rtask[t].pc # "rc_clear"

\* asyncio.wait_for(..., connect_timeout) may expire: the front is not known
\* to answer in time, or the SDK thread has nothing left to deliver
TimeoutPossible == ~healthy \/ sdk \in {"off", "lost", "logged_in", "login_failed"}

\* ------------------------------------------------------------ observations
Snap(st, subs, bars) == [state |-> st, subscribed |-> subs, bars |-> DOMAIN bars]
Snapshot == Snap(state, subscribed_symbols, bar_generators)

NoPre == [state |-> "DISCONNECTED", subscribed |-> {}, bars |-> {}]
\* the gateway as a call finds it, kept by the caller until the call returns
PreSnapshot == IF observe = "history" THEN Snapshot ELSE NoPre
IdleCaller == [pc |-> "idle", arg |-> {}, pre |-> NoPre]
\* the context of a raised exception: the counts of a refused subscribe, and
\* whether host, timeout_seconds and the wrapped cause are attached
NoCtx == [current |-> 0, max |-> 0, requested |-> 0,
          host |-> FALSE, timeout |-> FALSE, cause |-> FALSE]
NoPrev == [op |-> "none", arg |-> {}, calls |-> 0, result |-> {}, exc |-> "none"]

NoRet == [op |-> "none", arg |-> {}, result |-> {}, exc |-> "none", calls |-> 0,
          ctx |-> NoCtx, pre |-> NoPre, post |-> NoPre, prev |-> NoPrev,
          batches |-> <<>>, sdk_ret |-> "none"]

\* the record of a call that returns (or raises exc) in this step; with
\* observe = "history" it also carries the gateway before and after the call
\* and the caller's previous call
Ret(op, arg, result, exc, calls, ctx, pre, post) ==
  [op |-> op, arg |-> arg, result |-> result, exc |-> exc, calls |-> calls,
   ctx |-> ctx, batches |-> <<>>, sdk_ret |-> "none",
   pre |-> IF observe = "history" THEN pre ELSE NoPre,
   post |-> IF observe = "history" THEN post ELSE NoPre,
   prev |-> IF observe = "history"
            THEN [op |-> ret.op, arg |-> ret.arg, calls |-> ret.calls,
                  result |-> ret.result, exc |-> ret.exc]
            ELSE NoPrev]

NoTask == [pc |-> "none", snap |-> {}, start_subs |-> {}, touched |-> FALSE,
           attempts |-> 0]
NoRcRet == [done |-> FALSE, start_subs |-> {}, touched |-> FALSE, subscribed |-> {},
            alert |-> "none", alert_raised |-> FALSE]

\* the application changed the subscribed set while a reconnect was running
Touch(changed) ==
  rtask' = [t \in RTasks |->
              IF changed /\ rtask[t].pc \notin {"none", "rc_start"}
              THEN [rtask[t] EXCEPT !.touched = TRUE] ELSE rtask[t]]
NoTick == [symbol |-> EmptySymbol, exchange |-> "", timestamp |-> NoTime,
           last_price |-> 0, volume |-> 0, status |-> "VALID"]
\* what a step of the tick pipeline did: the tick, the timestamp that went
\* the same way before it, the bars completed, the callback invoked, the
\* callbacks a finished handler has invoked, whether the queue refused it
NoTickEv == [kind |-> "none", tick |-> NoTick, prev |-> NoTime, bars |-> {},
             cb |-> 0, calls |-> <<>>, raised |-> FALSE, dropped |-> FALSE,
             errors |-> {}]
NoObs == [k |-> 0, slept |-> 0, slept_k |-> -1, accepted |-> <<>>, arrivals |-> 0,
          delivered |-> <<>>, native |-> {}, seen |-> <<>>]

\* with observe = "native", obs.native is the set of symbols the current
\* native handle is subscribed to: empty for a handle just created, a symbol
\* more for each SubscribeMarketData that returned 0, a symbol less for each
\* UnSubscribeMarketData that returned 0
NativeReset == IF observe = "native" THEN [obs EXCEPT !.native = {}] ELSE obs

NativeAdd(handle, symbols) ==
  IF observe = "native" /\ handle # NoHandle
  THEN [obs EXCEPT !.native = @ \cup symbols] ELSE obs

NativeRemove(symbols, code) ==
  IF observe = "native" /\ code = "0"
  THEN [obs EXCEPT !.native = @ \ symbols] ELSE obs
\* no _set_state call is in progress and none has returned yet
NoNotify == [pc |-> "idle", old |-> "DISCONNECTED", new |-> "DISCONNECTED",
             next |-> 1, calls |-> <<>>, raised |-> FALSE]

\* a step that is not a return: the event observations are cleared
NoSan == [op |-> "none", context |-> {}, result |-> {}]

QuietRet == ret' = IF observe = "history" THEN ret ELSE NoRet
QuietTick == tick_ev' = NoTickEv
Quiet == QuietRet /\ rc_ret' = NoRcRet /\ QuietTick

\* ------------------------------------------------------------------- Init
\* the state after CtpMarketGateway.__init__ (lines 93-159, base.py 95-132)
InitGateway ==
  /\ state = "DISCONNECTED"
  /\ subscribed_symbols = {}
  /\ bar_generators = <<>>
  /\ last_tick_time = <<>>
  /\ api = NoHandle
  /\ login_event = FALSE
  /\ login_error = NoError
  /\ reconnect_interval = config.initial_interval
  /\ consecutive_failures = 0
  /\ loop = FALSE
  /\ tick_queue = <<>>
  /\ tick_cache = <<>>
  /\ last_tick_at = NoTime
  /\ pending = <<>>
  /\ state_callbacks = <<>>
  /\ notify = NoNotify
  /\ tick_callbacks = <<>>
  /\ inflight = <<>>
  /\ sdk = "off"
  /\ caller = IdleCaller
  /\ rtask = [t \in RTasks |-> NoTask]
  /\ ret = NoRet
  /\ rc_ret = NoRcRet
  /\ tick_ev = NoTickEv
  /\ obs = NoObs
  /\ runtime_sensitive_keys = {}
  /\ alert_callback = "None"
  /\ bar_callbacks = <<>>
  /\ bar_inflight = <<>>
  /\ set_state_calls = <<>>

\* max_subscriptions 1 (config.py 272-277, range 1..5000), a constant
\* reconnect interval of 1 s, one reconnect loop at a time, and the SDK thread
\* answering only while the loop thread is between two stretches
MainConfigs ==
  {[max_subscriptions |-> 1, initial_interval |-> 1, max_interval |-> 1,
    multiplier |-> 2, max_attempts |-> 0, alert_threshold |-> 1,
    sdk_available |-> a, sdk_fast |-> FALSE, loops |-> 1] : a \in BOOLEAN}

Init ==
  /\ config \in MainConfigs
  /\ observe = "events"
  /\ healthy = FALSE
  /\ InitGateway
  /\ san = NoSan

\* ------------------------------------------------- connect (lines 165-237)
\* a failure that would leave the session in CONNECTING
StaysConnecting == "CONNECTING"

\* lines 228-232: the state a failed connect leaves behind
FailedState == "ERROR"

\* lines 187-191: already connected -> return; otherwise CONNECTING
Connect ==
  /\ caller.pc = "idle" /\ LoopFree
  /\ IF is_connected
     THEN /\ ret' = Ret("connect", {}, {}, "none", 0, NoCtx, Snapshot, Snapshot)
          /\ UNCHANGED <<gatewayVars, caller>>
     ELSE /\ state' = "CONNECTING"
          /\ caller' = [pc |-> "connect_init", arg |-> {}, pre |-> PreSnapshot]
          /\ QuietRet
          /\ UNCHANGED <<subscribed_symbols, bar_generators, last_tick_time, api,
                         login_event, login_error, reconnect_interval,
                         consecutive_failures, loop>>
  /\ rc_ret' = NoRcRet /\ QuietTick
  /\ UNCHANGED <<config, observe, set_state_calls, barVars, sanitizerVars, alert_callback,
                 tickVars, consumerVars, sdk, healthy, rtask, obs>>

\* lines 192-196 and _init_ctp_api (239-271): capture the loop, create the
\* native handle and Init() it, or pass the login through when the SDK
\* cannot be imported; any other bring-up exception is wrapped (231-237)
ConnectInit ==
  /\ caller.pc = "connect_init" /\ LoopFree
  /\ loop' = TRUE
  /\ \/ /\ config.sdk_available
        /\ api' = Handle
        /\ sdk' = "init"
        /\ obs' = NativeReset
        /\ caller' = [caller EXCEPT !.pc = "connect_clear"]
        /\ QuietRet
        /\ UNCHANGED <<login_event, state>>
     \/ /\ ~config.sdk_available
        /\ login_event' = TRUE
        /\ caller' = [caller EXCEPT !.pc = "connect_clear"]
        /\ QuietRet
        /\ UNCHANGED <<api, sdk, state, obs>>
     \/ /\ config.sdk_available
        /\ state' = FailedState
        /\ caller' = IdleCaller
        /\ ret' = Ret("connect", {}, {}, "CONNECTION_FAILED", 0,
                      [NoCtx EXCEPT !.host = TRUE, !.cause = TRUE], caller.pre,
                      Snap(FailedState, subscribed_symbols, bar_generators))
        /\ UNCHANGED <<api, sdk, login_event, obs>>
  /\ rc_ret' = NoRcRet /\ QuietTick
  /\ UNCHANGED <<config, observe, set_state_calls, barVars, sanitizerVars, alert_callback,
                 subscribed_symbols, bar_generators,
                 last_tick_time, login_error, reconnect_interval,
                 consecutive_failures, tickVars, consumerVars, healthy, rtask>>

\* lines 199-200: the login signal and the login error are reset after Init()
ConnectClear ==
  /\ caller.pc = "connect_clear"
  /\ login_event' = FALSE
  /\ login_error' = NoError
  /\ caller' = [caller EXCEPT !.pc = "connect_wait"]
  /\ Quiet
  /\ UNCHANGED <<config, observe, set_state_calls, barVars, sanitizerVars, alert_callback,
                 state, subscribed_symbols, bar_generators,
                 last_tick_time, api, reconnect_interval, consecutive_failures,
                 loop, tickVars, consumerVars, sdk, healthy, rtask, obs>>

\* attempts since the last successful login start again at 0
ObsLogin == IF observe = "backoff" THEN [obs EXCEPT !.k = 0] ELSE obs

\* lines 202-221, 228-230: the login signal fired
ConnectLogin ==
  /\ caller.pc = "connect_wait" /\ LoopFree
  /\ login_event
  /\ IF login_error # NoError
     THEN /\ state' = FailedState
          /\ caller' = IdleCaller
          /\ ret' = Ret("connect", {}, {}, "AUTH_FAILED", 0,
                        [NoCtx EXCEPT !.host = TRUE], caller.pre,
                        Snap(FailedState, subscribed_symbols, bar_generators))
          /\ UNCHANGED obs
     ELSE /\ state' = "CONNECTED"
          /\ caller' = [caller EXCEPT !.pc = "connect_post"]
          /\ obs' = ObsLogin
          /\ QuietRet
  /\ rc_ret' = NoRcRet /\ QuietTick
  /\ UNCHANGED <<config, observe, set_state_calls, barVars, sanitizerVars, alert_callback,
                 subscribed_symbols, bar_generators,
                 last_tick_time, api, login_event, login_error,
                 reconnect_interval, consecutive_failures, loop, tickVars, consumerVars, sdk,
                 healthy, rtask>>

\* lines 207-212, 228-230: the wait expired
ConnectTimeout ==
  /\ caller.pc = "connect_wait" /\ LoopFree
  /\ ~login_event /\ TimeoutPossible
  /\ state' = FailedState
  /\ caller' = IdleCaller
  /\ ret' = Ret("connect", {}, {}, "CONNECTION_TIMEOUT", 0,
                [NoCtx EXCEPT !.host = TRUE, !.timeout = TRUE], caller.pre,
                Snap(FailedState, subscribed_symbols, bar_generators))
  /\ rc_ret' = NoRcRet /\ QuietTick
  /\ UNCHANGED <<config, observe, set_state_calls, barVars, sanitizerVars, alert_callback,
                 subscribed_symbols, bar_generators,
                 last_tick_time, api, login_event, login_error,
                 reconnect_interval, consecutive_failures, loop, tickVars, consumerVars, sdk,
                 healthy, rtask, obs>>

\* lines 222-226: after the listeners of CONNECTED have run
ConnectPost ==
  /\ caller.pc = "connect_post" /\ LoopFree
  /\ consecutive_failures' = 0
  /\ reconnect_interval' = config.initial_interval
  /\ caller' = IdleCaller
  /\ ret' = Ret("connect", {}, {}, "none", 0, NoCtx, caller.pre, Snapshot)
  /\ rc_ret' = NoRcRet /\ QuietTick
  /\ UNCHANGED <<config, observe, set_state_calls, barVars, sanitizerVars, alert_callback,
                 state, subscribed_symbols, bar_generators,
                 last_tick_time, api, login_event, login_error, loop, tickVars, consumerVars,
                 sdk, healthy, rtask, obs>>

\* ---------------------------------------------- disconnect (lines 273-305)
\* _reconnect_task is None from construction on (line 135) and is assigned
\* nowhere else in the source, so the cancel branch (287-292) is never taken
reconnect_task == "None"

Disconnect ==
  /\ caller.pc = "idle" /\ LoopFree
  /\ IF state = "DISCONNECTED"
     THEN UNCHANGED <<state, api, sdk, obs>>
     ELSE /\ reconnect_task = "None"
          /\ api' = NoHandle
          /\ sdk' = IF api # NoHandle THEN "off" ELSE sdk
          /\ state' = "DISCONNECTED"
          /\ obs' = NativeReset
  /\ ret' = Ret("disconnect", {}, {}, "none", 0, NoCtx, Snapshot,
                Snap("DISCONNECTED", subscribed_symbols, bar_generators))
  /\ rc_ret' = NoRcRet /\ QuietTick
  /\ UNCHANGED <<config, observe, set_state_calls, barVars, sanitizerVars, alert_callback,
                 subscribed_symbols, bar_generators,
                 last_tick_time, login_event, login_error, reconnect_interval,
                 consecutive_failures, loop, tickVars, consumerVars, healthy, caller, rtask>>

\* ----------------------------------------------- subscribe (lines 311-380)
\* the body after the SUBSCRIBING transition, run by the caller
CallerSubscribeBody(symbols, pre) ==
  \E o \in SubscribeOutcomes(subscribed_symbols, api, symbols) :
    /\ ApplySubscribe(subscribed_symbols, o)
    /\ obs' = NativeAdd(api, o.success)
    /\ Touch(o.kind = "done" /\ o.success # {})
    /\ caller' = IdleCaller
    /\ ret' = [Ret("subscribe", symbols, o.success,
                   IF o.kind = "limit" THEN "SUBSCRIPTION_LIMIT_EXCEEDED" ELSE "none",
                   o.calls,
                   IF o.kind = "limit"
                   THEN [NoCtx EXCEPT !.current = Cardinality(subscribed_symbols),
                                      !.max = config.max_subscriptions,
                                      !.requested = Cardinality(o.new)]
                   ELSE NoCtx,
                   pre,
                   Snap(IF o.kind = "limit" THEN state ELSE "RUNNING",
                        IF o.kind = "done" THEN subscribed_symbols \cup o.success
                        ELSE subscribed_symbols,
                        IF o.kind = "done"
                        THEN init_bar_generators(bar_generators, o.success)
                        ELSE bar_generators))
                 EXCEPT !.batches = o.batches]

\* lines 332-338: not connected -> CONNECTION_LOST; otherwise SUBSCRIBING.
\* When the state already is SUBSCRIBING, _set_state returns at once and the
\* body follows without a suspension.
Subscribe(symbols) ==
  /\ caller.pc = "idle" /\ LoopFree
  /\ IF ~is_connected
     THEN /\ ret' = Ret("subscribe", symbols, {}, "CONNECTION_LOST", 0, NoCtx,
                        Snapshot, Snapshot)
          /\ UNCHANGED <<state, subscribed_symbols, bar_generators, caller, rtask, obs>>
     ELSE IF state # "SUBSCRIBING"
     THEN /\ state' = "SUBSCRIBING"
          /\ caller' = [pc |-> "sub_body", arg |-> symbols, pre |-> PreSnapshot]
          /\ QuietRet
          /\ UNCHANGED <<subscribed_symbols, bar_generators, rtask, obs>>
     ELSE CallerSubscribeBody(symbols, Snapshot)
  /\ rc_ret' = NoRcRet /\ QuietTick
  /\ UNCHANGED <<config, observe, set_state_calls, barVars, sanitizerVars, alert_callback,
                 last_tick_time, api, login_event, login_error,
                 reconnect_interval, consecutive_failures, loop, tickVars, consumerVars, sdk,
                 healthy>>

\* lines 341-380, resumed after the listeners of SUBSCRIBING have run
SubscribeBody ==
  /\ caller.pc = "sub_body" /\ LoopFree
  /\ CallerSubscribeBody(caller.arg, caller.pre)
  /\ rc_ret' = NoRcRet /\ QuietTick
  /\ UNCHANGED <<config, observe, set_state_calls, barVars, sanitizerVars, alert_callback,
                 last_tick_time, api, login_event, login_error,
                 reconnect_interval, consecutive_failures, loop, tickVars, consumerVars, sdk,
                 healthy>>

\* the return codes of UnSubscribeMarketData that are told apart when the
\* SDK calls are observed: 0, and -1 for a request the SDK could not send
UnsubscribeCodes(handle) ==
  IF handle = NoHandle THEN {"none"}
  ELSE IF observe = "calls" THEN {"0", "-1"} ELSE {"0"}

\* --------------------------------------------- unsubscribe (lines 398-430)
\* no suspension point; the value the SDK call returns is not looked at
\* (line 418); the SDK call may raise, which is logged and gives []
Unsubscribe(symbols) ==
  /\ caller.pc = "idle" /\ LoopFree
  /\ LET to_unsub == symbols \cap subscribed_symbols
     IN IF to_unsub = {}
        THEN /\ ret' = Ret("unsubscribe", symbols, {}, "none", 0, NoCtx,
                           Snapshot, Snapshot)
             /\ UNCHANGED <<subscribed_symbols, last_tick_time, bar_generators,
                            rtask, obs>>
        ELSE \/ /\ subscribed_symbols' = subscribed_symbols \ to_unsub
                /\ Touch(TRUE)
                /\ last_tick_time' = DictPop(last_tick_time, to_unsub)
                /\ bar_generators' = DictPop(bar_generators, to_unsub)
                /\ \E code \in UnsubscribeCodes(api) :
                     /\ obs' = NativeRemove(to_unsub, code)
                     /\ ret' = [Ret("unsubscribe", symbols, to_unsub, "none",
                                    IF api # NoHandle THEN 1 ELSE 0, NoCtx, Snapshot,
                                    Snap(state, subscribed_symbols \ to_unsub,
                                         DictPop(bar_generators, to_unsub)))
                                  EXCEPT !.sdk_ret = code]
             \/ /\ api # NoHandle
                /\ ret' = [Ret("unsubscribe", symbols, {}, "none", 1, NoCtx,
                               Snapshot, Snapshot) EXCEPT !.sdk_ret = "raised"]
                /\ UNCHANGED <<subscribed_symbols, last_tick_time, bar_generators,
                               rtask, obs>>
  /\ rc_ret' = NoRcRet /\ QuietTick
  /\ UNCHANGED <<config, observe, set_state_calls, barVars, sanitizerVars, alert_callback,
                 state, api, login_event, login_error,
                 reconnect_interval, consecutive_failures, loop, tickVars, consumerVars, sdk,
                 healthy, caller>>

\* ------------------------------------------- SDK thread (_CtpMdSpi, 810-866)
\* the SDK thread delivers a callback; with sdk_fast it may do so while the
\* loop thread is between Init() and _login_event.clear()
SdkMayRun == config.sdk_fast \/ LoopFree

\* OnFrontConnected (822-834): the front accepted the TCP session, the SPI
\* sends the login request
OnFrontConnected ==
  /\ sdk = "init" /\ SdkMayRun
  /\ api # NoHandle
  /\ sdk' = "front"
  /\ Quiet
  /\ UNCHANGED <<config, observe, set_state_calls, barVars, sanitizerVars, alert_callback,
                 gatewayVars, tickVars, consumerVars, healthy, caller, rtask, obs>>

\* OnRspUserLogin (847-862): an error is stored in _login_error (a success
\* leaves _login_error as it is), then the login signal is set
OnRspUserLogin(is_error) ==
  /\ sdk = "front" /\ SdkMayRun
  /\ is_error => ~healthy
  /\ login_error' = IF is_error THEN "ErrorMsg" ELSE login_error
  /\ login_event' = TRUE
  /\ sdk' = IF is_error THEN "login_failed" ELSE "logged_in"
  /\ Quiet
  /\ UNCHANGED <<config, observe, set_state_calls, barVars, sanitizerVars, alert_callback,
                 state, subscribed_symbols, bar_generators,
                 last_tick_time, api, reconnect_interval, consecutive_failures,
                 loop, tickVars, consumerVars, healthy, caller, rtask, obs>>

\* OnFrontDisconnected (836-845): when the state read on the SDK thread is
\* RUNNING, _do_reconnect is scheduled on the loop; the future returned by
\* run_coroutine_threadsafe is dropped.  The line does not drop any more
\* once the outage is over.
OnFrontDisconnected ==
  /\ sdk \in {"front", "logged_in", "login_failed"} /\ SdkMayRun
  /\ ~healthy
  /\ sdk' = "lost"
  /\ IF loop /\ state = "RUNNING"
     THEN \E t \in RTasks :
            /\ rtask[t].pc = "none"
            /\ rtask' = [rtask EXCEPT ![t] = [NoTask EXCEPT !.pc = "rc_start"]]
     ELSE UNCHANGED rtask
  /\ Quiet
  /\ UNCHANGED <<config, observe, set_state_calls, barVars, sanitizerVars, alert_callback,
                 gatewayVars, tickVars, consumerVars, healthy, caller, obs>>

\* environment: the outage ends, from now on the front answers logins
\* successfully and within connect_timeout
SdkRecover ==
  /\ ~healthy /\ config.sdk_available
  /\ healthy' = TRUE
  /\ Quiet
  /\ UNCHANGED <<config, observe, set_state_calls, barVars, sanitizerVars, alert_callback,
                 gatewayVars, tickVars, consumerVars, sdk, caller, rtask, obs>>

\* -------------------------------------------- _do_reconnect (lines 456-528)
\* line 468
RcStart(t) ==
  /\ rtask[t].pc = "rc_start" /\ LoopFree
  /\ state' = "RECONNECTING"
  /\ rtask' = [rtask EXCEPT ![t] = [NoTask EXCEPT
                                      !.pc = "rc_loop",
                                      !.start_subs = subscribed_symbols]]
  /\ Quiet
  /\ UNCHANGED <<config, observe, set_state_calls, barVars, sanitizerVars, alert_callback,
                 subscribed_symbols, bar_generators,
                 last_tick_time, api, login_event, login_error,
                 reconnect_interval, consecutive_failures, loop, tickVars, consumerVars, sdk,
                 healthy, caller, obs>>

\* the interval slept before the attempt, and which attempt since the last
\* successful login it is (counted up to MaxAttempts)
ObsSleep ==
  IF observe = "backoff"
  THEN [obs EXCEPT !.k = Min(@ + 1, MaxAttempts), !.slept = reconnect_interval,
                   !.slept_k = obs.k]
  ELSE obs

\* the sink is never called
never_alerts == NoRcRet

\* _on_reconnect_failed (536-556): the alert callback, when there is one, is
\* called with "CRITICAL"; what it raises is logged
on_reconnect_failed ==
  IF alert_callback = "None" THEN NoRcRet
  ELSE [NoRcRet EXCEPT !.alert = "CRITICAL",
                       !.alert_raised = (alert_callback = "raises")]

\* lines 470-482: count the attempt, alert, sleep reconnect_interval seconds.
\* max_attempts is read nowhere in the loop.  _consecutive_failures is only
\* ever compared with alert_threshold (line 478), so it is counted up to
\* alert_threshold.
RcLoop(t) ==
  /\ rtask[t].pc = "rc_loop" /\ LoopFree
  /\ consecutive_failures' = Min(consecutive_failures + 1, config.alert_threshold)
  /\ rc_ret' = IF consecutive_failures' >= config.alert_threshold
               THEN on_reconnect_failed ELSE NoRcRet
  /\ rtask' = [rtask EXCEPT ![t].pc = "rc_attempt",
                            ![t].attempts = IF observe = "backoff"
                                            THEN Min(@ + 1, MaxAttempts) ELSE @]
  /\ obs' = ObsSleep
  /\ QuietRet /\ QuietTick
  /\ UNCHANGED <<config, observe, set_state_calls, barVars, sanitizerVars, alert_callback,
                 state, subscribed_symbols, bar_generators,
                 last_tick_time, api, login_event, login_error,
                 reconnect_interval, loop, tickVars, consumerVars, sdk, healthy, caller>>

\* lines 484-491: release the old handle, create and Init() a new one
RcAttempt(t) ==
  /\ rtask[t].pc = "rc_attempt" /\ LoopFree
  /\ IF config.sdk_available
     THEN /\ api' = Handle
          /\ sdk' = "init"
          /\ obs' = NativeReset
          /\ UNCHANGED login_event
     ELSE /\ api' = NoHandle
          /\ sdk' = "off"
          /\ login_event' = TRUE
          /\ UNCHANGED obs
  /\ rtask' = [rtask EXCEPT ![t].pc = "rc_clear"]
  /\ Quiet
  /\ UNCHANGED <<config, observe, set_state_calls, barVars, sanitizerVars, alert_callback,
                 state, subscribed_symbols, bar_generators,
                 last_tick_time, login_error, reconnect_interval,
                 consecutive_failures, loop, tickVars, consumerVars, healthy, caller>>

\* line 494: only the login signal is reset; _login_error keeps its value
RcClear(t) ==
  /\ rtask[t].pc = "rc_clear"
  /\ login_event' = FALSE
  /\ rtask' = [rtask EXCEPT ![t].pc = "rc_wait"]
  /\ Quiet
  /\ UNCHANGED <<config, observe, set_state_calls, barVars, sanitizerVars, alert_callback,
                 state, subscribed_symbols, bar_generators,
                 last_tick_time, api, login_error, reconnect_interval,
                 consecutive_failures, loop, tickVars, consumerVars, sdk, healthy, caller, obs>>

\* lines 522-528: the attempt failed, the next interval
Backoff(interval) == Min(interval * config.multiplier, config.max_interval)

\* lines 495-510: the login signal fired
RcLogin(t) ==
  /\ rtask[t].pc = "rc_wait" /\ LoopFree
  /\ login_event
  /\ IF login_error # NoError
     THEN /\ reconnect_interval' = Backoff(reconnect_interval)
          /\ rtask' = [rtask EXCEPT ![t].pc = "rc_loop"]
          /\ UNCHANGED <<state, obs>>
     ELSE /\ state' = "CONNECTED"
          /\ rtask' = [rtask EXCEPT ![t].pc = "rc_post"]
          /\ obs' = ObsLogin
          /\ UNCHANGED reconnect_interval
  /\ Quiet
  /\ UNCHANGED <<config, observe, set_state_calls, barVars, sanitizerVars, alert_callback,
                 subscribed_symbols, bar_generators,
                 last_tick_time, api, login_event, login_error,
                 consecutive_failures, loop, tickVars, consumerVars, sdk, healthy, caller>>

\* lines 500-504, 522-528: the wait expired
RcTimeout(t) ==
  /\ rtask[t].pc = "rc_wait" /\ LoopFree
  /\ ~login_event /\ TimeoutPossible
  /\ reconnect_interval' = Backoff(reconnect_interval)
  /\ rtask' = [rtask EXCEPT ![t].pc = "rc_loop"]
  /\ Quiet
  /\ UNCHANGED <<config, observe, set_state_calls, barVars, sanitizerVars, alert_callback,
                 state, subscribed_symbols, bar_generators,
                 last_tick_time, api, login_event, login_error,
                 consecutive_failures, loop, tickVars, consumerVars, sdk, healthy, caller, obs>>

\* _do_reconnect sets RUNNING and returns True (lines 518-520)
RcReturn(t, subs) ==
  /\ state' = "RUNNING"
  /\ rc_ret' = [NoRcRet EXCEPT !.done = TRUE, !.start_subs = rtask[t].start_subs,
                               !.touched = rtask[t].touched, !.subscribed = subs]
  /\ rtask' = [rtask EXCEPT ![t] = NoTask]

\* subscribe's body (341-380) as run by _restore_subscriptions; a raise
\* lands in _do_reconnect's except clause (522-528)
RcSubscribeBody(t, subs, symbols, interval) ==
  \E o \in SubscribeOutcomes(subs, api, symbols) :
    IF o.kind = "limit"
    THEN /\ subscribed_symbols' = subs
         /\ reconnect_interval' = Backoff(interval)
         /\ rtask' = [rtask EXCEPT ![t].pc = "rc_loop", ![t].snap = {}]
         /\ UNCHANGED <<state, bar_generators, obs>>
    ELSE /\ ApplySubscribe(subs, o)
         /\ obs' = NativeAdd(api, o.success)
         /\ reconnect_interval' = interval
         /\ rtask' = [rtask EXCEPT ![t].pc = "rc_finish", ![t].snap = {}]

\* lines 511-518 and _restore_subscriptions (530-534), after the listeners
\* of CONNECTED have run: reset the backoff, snapshot and clear the
\* subscribed set, call subscribe(snapshot) up to its first suspension
RcPost(t) ==
  /\ rtask[t].pc = "rc_post" /\ LoopFree
  /\ consecutive_failures' = 0
  /\ IF subscribed_symbols = {}
     THEN /\ reconnect_interval' = config.initial_interval
          /\ RcReturn(t, subscribed_symbols)
          /\ UNCHANGED <<subscribed_symbols, bar_generators, obs>>
     ELSE IF ~is_connected
     THEN /\ subscribed_symbols' = {}
          /\ reconnect_interval' = Backoff(config.initial_interval)
          /\ rtask' = [rtask EXCEPT ![t].pc = "rc_loop"]
          /\ rc_ret' = NoRcRet
          /\ UNCHANGED <<state, bar_generators, obs>>
     ELSE IF state # "SUBSCRIBING"
     THEN /\ subscribed_symbols' = {}
          /\ state' = "SUBSCRIBING"
          /\ reconnect_interval' = config.initial_interval
          /\ rtask' = [rtask EXCEPT ![t].pc = "rc_sub_body",
                                    ![t].snap = subscribed_symbols]
          /\ rc_ret' = NoRcRet
          /\ UNCHANGED <<bar_generators, obs>>
     ELSE /\ RcSubscribeBody(t, {}, subscribed_symbols, config.initial_interval)
          /\ rc_ret' = NoRcRet
  /\ QuietRet /\ QuietTick
  /\ UNCHANGED <<config, observe, set_state_calls, barVars, sanitizerVars, alert_callback,
                 last_tick_time, api, login_event, login_error,
                 loop, tickVars, consumerVars, sdk, healthy, caller>>

\* subscribe(snapshot) resumed after the listeners of SUBSCRIBING have run
RcSubBody(t) ==
  /\ rtask[t].pc = "rc_sub_body" /\ LoopFree
  /\ RcSubscribeBody(t, subscribed_symbols, rtask[t].snap, reconnect_interval)
  /\ Quiet
  /\ UNCHANGED <<config, observe, set_state_calls, barVars, sanitizerVars, alert_callback,
                 last_tick_time, api, login_event, login_error,
                 consecutive_failures, loop, tickVars, consumerVars, sdk, healthy, caller>>

\* lines 518-520, after the listeners of subscribe's RUNNING have run
RcFinish(t) ==
  /\ rtask[t].pc = "rc_finish" /\ LoopFree
  /\ RcReturn(t, subscribed_symbols)
  /\ QuietRet /\ QuietTick
  /\ UNCHANGED <<config, observe, set_state_calls, barVars, sanitizerVars, alert_callback,
                 subscribed_symbols, bar_generators,
                 last_tick_time, api, login_event, login_error,
                 reconnect_interval, consecutive_failures, loop, tickVars, consumerVars, sdk,
                 healthy, caller, obs>>

\* ------------------------------------------------------------------- Spec
\* arguments of subscribe / unsubscribe: one symbol, or every symbol
SubscribeArgs == {{x} : x \in Symbols} \cup {Symbols}

\* session, subscriptions and reconnect with restore, one application task
Next ==
  \/ Connect \/ ConnectInit \/ ConnectClear \/ ConnectLogin
  \/ ConnectTimeout \/ ConnectPost
  \/ Disconnect
  \/ \E symbols \in SubscribeArgs : Subscribe(symbols)
  \/ SubscribeBody
  \/ \E symbols \in SubscribeArgs : Unsubscribe(symbols)
  \/ OnFrontConnected
  \/ \E is_error \in BOOLEAN : OnRspUserLogin(is_error)
  \/ OnFrontDisconnected
  \/ \E t \in RTasks : RcStart(t)
  \/ \E t \in RTasks : RcLoop(t)
  \/ \E t \in RTasks : RcAttempt(t)
  \/ \E t \in RTasks : RcClear(t)
  \/ \E t \in RTasks : RcLogin(t)
  \/ \E t \in RTasks : RcTimeout(t)
  \/ \E t \in RTasks : RcPost(t)
  \/ \E t \in RTasks : RcSubBody(t)
  \/ \E t \in RTasks : RcFinish(t)

Spec == Init /\ [][Next]_vars

\* C2: in every reachable state the number of subscribed symbols is at most
\* max_subscriptions, whatever the interleaving of subscribe, unsubscribe and
\* the restore of a reconnect.
C2_SubscriptionLimit ==
  Cardinality(subscribed_symbols) <= config.max_subscriptions

\* a subscribe was refused at the limit while the set is full
C2_Witness ==
  /\ Cardinality(subscribed_symbols) = config.max_subscriptions
  /\ ret.op = "subscribe" /\ ret.exc = "SUBSCRIPTION_LIMIT_EXCEEDED"

\* C7: when _do_reconnect returns true in RUNNING, the subscribed set equals
\* the set that existed when the reconnect started (the application did not
\* touch the set in between), whatever the SDK answered to the batches.
C7_RestoreComplete ==
  (rc_ret.done /\ ~rc_ret.touched) => rc_ret.subscribed = rc_ret.start_subs

\* ----------------------------------------------------------- SpecSession
\* connect, disconnect, the SDK thread and the reconnect loops; the only
\* subscribe is the one for a pattern that matches nothing, which takes the
\* session to RUNNING; the SDK thread may answer at any moment
SessionConfigs ==
  {[max_subscriptions |-> 1, initial_interval |-> 1, max_interval |-> 1,
    multiplier |-> 2, max_attempts |-> 0, alert_threshold |-> 2,
    sdk_available |-> a, sdk_fast |-> TRUE, loops |-> MaxReconnectTasks]
     : a \in BOOLEAN}

InitSession ==
  /\ config \in SessionConfigs
  /\ observe = "events"
  /\ healthy = FALSE
  /\ InitGateway
  /\ san = NoSan

NextSession ==
  \/ Connect \/ ConnectInit \/ ConnectClear \/ ConnectLogin
  \/ ConnectTimeout \/ ConnectPost
  \/ Disconnect
  \/ Subscribe({Wildcard})
  \/ SubscribeBody
  \/ OnFrontConnected
  \/ \E is_error \in BOOLEAN : OnRspUserLogin(is_error)
  \/ OnFrontDisconnected
  \/ \E t \in RTasks : RcStart(t)
  \/ \E t \in RTasks : RcLoop(t)
  \/ \E t \in RTasks : RcAttempt(t)
  \/ \E t \in RTasks : RcClear(t)
  \/ \E t \in RTasks : RcLogin(t)
  \/ \E t \in RTasks : RcTimeout(t)
  \/ \E t \in RTasks : RcPost(t)

SpecSession == InitSession /\ [][NextSession]_vars

\* C10: once disconnect() has returned, no reconnect loop is in flight: while
\* the state is DISCONNECTED no _do_reconnect coroutine is scheduled or running.
C10_DisconnectCancelsReconnect ==
  state = "DISCONNECTED" => \A t \in RTasks : rtask[t].pc = "none"

\* C11: disconnect() takes the session to the terminal STOPPED state (the
\* state on which every tick_stream consumer loop ends): when disconnect()
\* returns on a session that connect() had started, the state is STOPPED.
C11_DisconnectStops ==
  (ret.op = "disconnect" /\ loop) => state = "STOPPED"

\* C12: every change of the session state made by connect, subscribe,
\* disconnect and the reconnect loop is a transition of the state diagram:
\* no other pair (old, new) is handed to a state listener.
C12_LegalTransitions ==
  [][state' # state =>
       \/ <<state, state'>> \in
            {<<"DISCONNECTED", "CONNECTING">>, <<"CONNECTING", "CONNECTED">>,
             <<"CONNECTED", "SUBSCRIBING">>, <<"SUBSCRIBING", "RUNNING">>,
             <<"CONNECTING", "ERROR">>, <<"CONNECTED", "ERROR">>,
             <<"SUBSCRIBING", "ERROR">>, <<"RUNNING", "RECONNECTING">>,
             <<"RECONNECTING", "CONNECTED">>}
       \/ state' = "STOPPED"]_vars

\* C13: a connect() that fails raises by kind and leaves the session in
\* ERROR, not connected: CONNECTION_TIMEOUT (only while the login signal is
\* not set) with host and timeout in the context, AUTH_FAILED (only with the
\* signal set and a login error stored) with the host, or CONNECTION_FAILED
\* with the host and the wrapped cause.
C13_ConnectFailure ==
  (ret.op = "connect" /\ ret.exc # "none") =>
    /\ state = "ERROR" /\ ~is_connected
    /\ \/ /\ ret.exc = "CONNECTION_TIMEOUT"
          /\ ~login_event
          /\ ret.ctx.host /\ ret.ctx.timeout
       \/ /\ ret.exc = "AUTH_FAILED"
          /\ login_event /\ login_error # NoError
          /\ ret.ctx.host
       \/ /\ ret.exc = "CONNECTION_FAILED"
          /\ ret.ctx.host /\ ret.ctx.cause

\* a connect() has just raised AUTH_FAILED after a rejected login
C13_Witness ==
  /\ ret.op = "connect" /\ ret.exc = "AUTH_FAILED"
  /\ sdk = "login_failed"

\* C14: when the native SDK cannot be imported (fallback mode), connect()
\* completes without raising and leaves the session CONNECTED.
C14_FallbackConnects ==
  (~config.sdk_available /\ ret.op = "connect") =>
    (ret.exc = "none" /\ state = "CONNECTED")

\* ------------------------------------------------------------- SpecState
\* AbstractGateway.on_state_change (base.py 218-220)
OnStateChange ==
  /\ Len(state_callbacks) < MaxCallbacks
  /\ state_callbacks' = Append(state_callbacks, Len(state_callbacks) + 1)
  /\ notify' = IF notify.pc = "returned" THEN NoNotify ELSE notify
  /\ Quiet
  /\ UNCHANGED <<config, observe, set_state_calls, barVars, sanitizerVars, alert_callback,
                 gatewayVars, tickVars, tick_callbacks, inflight,
                 sdk, healthy, caller, rtask, obs>>

\* the listener loop as it would be without the try / except around the call
ListenerStopsAtRaise(outcome) == outcome = "returns"

\* base.py 196-200: an exception of a listener is logged, the loop goes on
ListenerContinues(outcome) == outcome \in {"returns", "raises"}

\* AbstractGateway._set_state(new) (base.py 181-200) up to its first
\* suspension: nothing happens when the state is new already; otherwise the
\* state is set and the first listener is called with (old, new)
SetState(new) ==
  /\ notify.pc # "calling"
  /\ state' = new
  /\ notify' = [pc |-> IF state = new \/ state_callbacks = <<>>
                       THEN "returned" ELSE "calling",
                old |-> state, new |-> new, next |-> 1,
                calls |-> IF state = new \/ state_callbacks = <<>>
                          THEN <<>> ELSE << <<1, state, new>> >>,
                raised |-> FALSE]
  /\ Quiet
  /\ UNCHANGED <<config, observe, set_state_calls, barVars, sanitizerVars, alert_callback,
                 subscribed_symbols, bar_generators,
                 last_tick_time, api, login_event, login_error,
                 reconnect_interval, consecutive_failures, loop, tickVars,
                 state_callbacks, tick_callbacks, inflight, sdk, healthy, caller,
                 rtask, obs>>

\* base.py 196-200: the awaited listener returns or raises; the next listener
\* is called with the same (old, new), or _set_state returns
StateCallbackDone(outcome) ==
  /\ notify.pc = "calling"
  /\ notify' =
       IF ListenerContinues(outcome) /\ notify.next < Len(state_callbacks)
       THEN [notify EXCEPT
               !.next = @ + 1,
               !.calls = Append(@, <<notify.next + 1, notify.old, notify.new>>),
               !.raised = @ \/ outcome = "raises"]
       ELSE [notify EXCEPT !.pc = "returned",
                           !.raised = @ \/ outcome = "raises"]
  /\ Quiet
  /\ UNCHANGED <<config, observe, set_state_calls, barVars, sanitizerVars, alert_callback,
                 gatewayVars, tickVars, state_callbacks,
                 tick_callbacks, inflight, sdk, healthy, caller, rtask, obs>>

\* _set_state called with every state, listeners registered at any moment
InitState ==
  /\ config \in MainConfigs
  /\ observe = "events"
  /\ healthy = FALSE
  /\ InitGateway
  /\ san = NoSan

NextState ==
  \/ OnStateChange
  \/ \E new \in GatewayStates : SetState(new)
  \/ \E outcome \in {"returns", "raises"} : StateCallbackDone(outcome)

SpecState == InitState /\ [][NextState]_vars

\* C15: when _set_state returns after a transition with old # new, it has
\* called every registered listener once with (old, new), in registration
\* order, also when listeners raised, and the state is the new one all along;
\* with old = new it has called no listener and the state is unchanged.
C15_ListenersNotified ==
  /\ notify.pc = "calling" => state = notify.new
  /\ notify.pc = "returned" =>
       /\ state = notify.new
       /\ notify.calls =
            IF notify.old = notify.new THEN <<>>
            ELSE [k \in 1..Len(state_callbacks) |-> <<k, notify.old, notify.new>>]

\* a transition has gone through all of MaxCallbacks listeners, one of which
\* raised
C15_Witness ==
  /\ notify.pc = "returned" /\ notify.old # notify.new
  /\ notify.raised /\ Len(notify.calls) = MaxCallbacks

\* --------------------------------------------------------------- SpecSub
\* connect, subscribe, unsubscribe and disconnect on a line that stays up;
\* every call is recorded with the gateway before and after it and with the
\* call before it
SubConfigs ==
  {[max_subscriptions |-> m, initial_interval |-> 1, max_interval |-> 1,
    multiplier |-> 2, max_attempts |-> 0, alert_threshold |-> 2,
    sdk_available |-> TRUE, sdk_fast |-> FALSE, loops |-> 1]
     : m \in {1, NumSymbols}}

InitSub ==
  /\ config \in SubConfigs
  /\ observe = "history"
  /\ healthy = FALSE
  /\ InitGateway
  /\ san = NoSan

\* one symbol or pattern, or every symbol
PatternArgs == {{x} : x \in Patterns} \cup {Symbols}

NextSub ==
  \/ Connect \/ ConnectInit \/ ConnectClear \/ ConnectLogin
  \/ ConnectTimeout \/ ConnectPost
  \/ Disconnect
  \/ \E symbols \in PatternArgs : Subscribe(symbols)
  \/ SubscribeBody
  \/ \E symbols \in PatternArgs : Unsubscribe(symbols)
  \/ OnFrontConnected
  \/ \E is_error \in BOOLEAN : OnRspUserLogin(is_error)

SpecSub == InitSub /\ [][NextSub]_vars

\* two subscribe calls with the same argument, one directly after the other,
\* neither finding the gateway disconnected
SubscribeTwice ==
  /\ ret.op = "subscribe" /\ ret.prev.op = "subscribe"
  /\ ret.arg = ret.prev.arg
  /\ ret.exc # "CONNECTION_LOST" /\ ret.prev.exc = "none"

\* C4 as stated: the first subscribe(X) issues an SDK call, the second one
\* issues none (one SDK call in total), returns an empty accepted list and
\* leaves the subscribed set unchanged.
C4_Original ==
  (SubscribeTwice /\ ret.prev.calls = 1)
    => /\ ret.calls = 0
       /\ ret.result = {}
       /\ ret.post.subscribed = ret.pre.subscribed

\* C4: when the first subscribe(X) left every symbol of X subscribed, the
\* second subscribe(X) issues no SDK call, returns an empty accepted list,
\* does not raise and leaves the subscribed set unchanged.
C4_Idempotent ==
  (SubscribeTwice /\ expand_wildcards(ret.arg) \subseteq ret.pre.subscribed)
    => /\ ret.calls = 0
       /\ ret.result = {}
       /\ ret.exc = "none"
       /\ ret.post.subscribed = ret.pre.subscribed

\* the second of two subscribe(X), after the first one had X accepted by the SDK
C4_Witness ==
  /\ SubscribeTwice
  /\ ret.prev.calls = 1 /\ ret.prev.result = ret.arg
  /\ ret.calls = 0 /\ ret.result = {}

\* C5: a subscribe that would exceed max_subscriptions raises
\* SUBSCRIPTION_LIMIT_EXCEEDED with the current, max and requested counts,
\* issues no SDK call and leaves the subscribed set, the bar aggregators and
\* the session state as they were before the call.
C5_LimitNoSideEffect ==
  (ret.op = "subscribe" /\ ret.exc = "SUBSCRIPTION_LIMIT_EXCEEDED")
    => /\ ret.ctx.current = Cardinality(ret.pre.subscribed)
       /\ ret.ctx.max = config.max_subscriptions
       /\ ret.ctx.requested = Cardinality(expand_wildcards(ret.arg) \ ret.pre.subscribed)
       /\ ret.calls = 0
       /\ ret.post = ret.pre

\* --------------------------------------------------------- SpecReconnect
\* one reconnect loop on its own: the application connects when no session
\* is up, subscribes to a pattern that matches nothing and then leaves the
\* gateway alone; the line drops, logins fail, expire or succeed, and at some
\* moment the outage may end.  Reconnect settings the validator accepts
\* (config.py 67-90): initial_interval in [0.1, 10], max_interval in [1, 300],
\* multiplier in [1.1, 5], max_attempts >= 0, and no relation between
\* initial_interval and max_interval.
ReconnectConfigs ==
  {[max_subscriptions |-> 1, initial_interval |-> b[1], max_interval |-> b[2],
    multiplier |-> 2, max_attempts |-> m, alert_threshold |-> 2,
    sdk_available |-> TRUE, sdk_fast |-> FALSE, loops |-> 1]
     : b \in {<<1, 60>>, <<2, 1>>}, m \in {0, 2}}

InitReconnect ==
  /\ config \in ReconnectConfigs
  /\ observe = "backoff"
  /\ healthy = FALSE
  /\ InitGateway
  /\ san = NoSan

NextReconnect ==
  \/ (state \in {"DISCONNECTED", "ERROR"} /\ Connect)
  \/ ConnectInit \/ ConnectClear \/ ConnectLogin
  \/ ConnectTimeout \/ ConnectPost
  \/ Subscribe({Wildcard})
  \/ SubscribeBody
  \/ OnFrontConnected
  \/ \E is_error \in BOOLEAN : OnRspUserLogin(is_error)
  \/ OnFrontDisconnected
  \/ SdkRecover
  \/ \E t \in RTasks : RcStart(t)
  \/ \E t \in RTasks : RcLoop(t)
  \/ \E t \in RTasks : RcAttempt(t)
  \/ \E t \in RTasks : RcClear(t)
  \/ \E t \in RTasks : RcLogin(t)
  \/ \E t \in RTasks : RcTimeout(t)
  \/ \E t \in RTasks : RcPost(t)

SpecReconnect == InitReconnect /\ [][NextReconnect]_vars

\* C6: for every accepted reconnect configuration, the interval slept before
\* the k-th consecutive attempt since the last successful login is
\* min(initial_interval * multiplier^k, max_interval).
C6_BackoffSequence ==
  (obs.slept_k >= 0 /\ obs.slept_k < MaxAttempts)
    => obs.slept = Min(config.initial_interval * Pow(config.multiplier, obs.slept_k),
                       config.max_interval)

\* C9: with max_attempts > 0 a reconnect loop makes at most max_attempts
\* attempts.
C9_AttemptsBounded ==
  config.max_attempts > 0
    => \A t \in RTasks : rtask[t].attempts <= config.max_attempts

\* the dispatch loop runs every coroutine that is ready, timers fire, and the
\* SDK thread delivers its callbacks
Fairness ==
  /\ WF_vars(\E t \in RTasks : RcStart(t))
  /\ WF_vars(\E t \in RTasks : RcLoop(t))
  /\ WF_vars(\E t \in RTasks : RcAttempt(t))
  /\ WF_vars(\E t \in RTasks : RcClear(t))
  /\ WF_vars(\E t \in RTasks : RcLogin(t))
  /\ WF_vars(\E t \in RTasks : RcTimeout(t))
  /\ WF_vars(\E t \in RTasks : RcPost(t))
  /\ WF_vars(ConnectInit) /\ WF_vars(ConnectClear) /\ WF_vars(ConnectLogin)
  /\ WF_vars(ConnectTimeout) /\ WF_vars(ConnectPost) /\ WF_vars(SubscribeBody)
  /\ WF_vars(OnFrontConnected)
  /\ WF_vars(\E is_error \in BOOLEAN : OnRspUserLogin(is_error))

LiveSpec == SpecReconnect /\ Fairness

\* C8: with max_attempts = 0, once the line has dropped during RUNNING and
\* the front answers logins successfully again, the session eventually is
\* RUNNING again without any call of the application.
C8_EventuallyRunning ==
  (config.max_attempts = 0 /\ healthy /\ \E t \in RTasks : rtask[t].pc # "none")
    ~> (state = "RUNNING")

\* ------------------------------------------------------ tick ingest pipeline
\* datetime.now(timezone.utc), in seconds; the clock stands still
Now == 7200

\* UpdateTime / TradingDay digits that strptime rejects
BadTime == -2

\* TickData as built by _convert_tick (627-666): the digits of TradingDay and
\* UpdateTime are taken as a UTC time, digits that do not parse give now()
convert_tick(raw) ==
  [symbol |-> raw.InstrumentID, exchange |-> raw.ExchangeID,
   timestamp |-> IF raw.UpdateTime = BadTime THEN Now ELSE raw.UpdateTime,
   last_price |-> raw.LastPrice, volume |-> raw.Volume, status |-> "VALID"]

\* models.py line 169: last_price <= 0 and volume > 0
price_error(tick) == tick.last_price <= 0 /\ tick.volume > 0

\* TickData.validate (models.py 148-184): the set of errors
validate_errors(tick) ==
  {e \in {"symbol", "exchange", "price", "stale"} :
     \/ e = "symbol" /\ tick.symbol = EmptySymbol
     \/ e = "exchange" /\ tick.exchange \notin VALID_EXCHANGES
     \/ e = "price" /\ price_error(tick)
     \/ e = "stale" /\ Abs(Now - tick.timestamp) > TIMESTAMP_STALE_THRESHOLD_SECONDS}

\* an order check that also turns away a tick as old as the last one
rejects_ties(tick) ==
  ~(tick.symbol \in DOMAIN last_tick_time
    /\ tick.timestamp <= last_tick_time[tick.symbol])

\* _check_tick_order (668-679): is the tick accepted?
check_tick_order(tick) ==
  ~(tick.symbol \in DOMAIN last_tick_time
    /\ tick.timestamp < last_tick_time[tick.symbol])

\* the start of the hour (the branch of periods other than 1 and 5 minutes)
hour_start(period, ts) == ts - (ts % 3600)

\* _BarGenerator._get_bar_time (799-807)
get_bar_time(period, ts) ==
  IF period = "MINUTE_1" THEN ts - (ts % 60) ELSE ts - (ts % 300)

\* _BarGenerator.update (754-797): <<the generator afterwards, completed bars>>
bar_update(period, gen, tick) ==
  LET bar_time == get_bar_time(period, tick.timestamp)
  IN IF gen.last_bar_time = NoTime \/ bar_time > gen.last_bar_time
     THEN <<[current_bar |->
               <<[symbol |-> tick.symbol, period |-> period, bar_datetime |-> bar_time,
                  open_price |-> tick.last_price, high_price |-> tick.last_price,
                  low_price |-> tick.last_price, close_price |-> tick.last_price,
                  volume |-> tick.volume]>>,
             last_bar_time |-> bar_time],
            {gen.current_bar[i] : i \in 1..Len(gen.current_bar)}>>
     ELSE IF gen.current_bar # <<>>
     THEN <<[gen EXCEPT !.current_bar =
               <<[gen.current_bar[1] EXCEPT
                    !.high_price = Max(@, tick.last_price),
                    !.low_price = Min(@, tick.last_price),
                    !.close_price = tick.last_price,
                    !.volume = tick.volume]>>],
            {}>>
     ELSE <<gen, {}>>

\* _update_bar_generators (693-703) for a symbol that has generators
update_bar_generators(tick) ==
  [period \in {"MINUTE_1", "MINUTE_5"} |->
     bar_update(period, bar_generators[tick.symbol][period], tick)]

\* a queue without a capacity
put_unbounded(queue, tick) == Append(queue, tick)

\* asyncio.Queue(maxsize).put_nowait inside try / except QueueFull (607-612):
\* the tick is dropped when the queue is full
put_nowait(queue, tick) ==
  IF Len(queue) >= config.queue_size THEN queue ELSE Append(queue, tick)

\* _TICK_CACHE_SIZE, the maxlen of the cache; a configuration may scale the
\* class attribute down
tick_cache_size ==
  IF "cache_size" \in DOMAIN config THEN config.cache_size ELSE TICK_CACHE_SIZE

\* a deque without maxlen
append_unbounded(cache, tick) == Append(cache, tick)

\* deque(maxlen = _TICK_CACHE_SIZE).append: the oldest entry makes room
cache_append(cache, tick) ==
  IF Len(cache) >= tick_cache_size THEN Append(Tail(cache), tick)
  ELSE Append(cache, tick)

\* what the front can send: traded ticks of two instants for every symbol;
\* for the first symbol also a pre-open zero, a zero price with volume, a
\* negative price with a negative volume, and ticks with one defect each
\* (unknown exchange, stale time, time that does not parse); a tick
\* without instrument
FreshTimes == {Now - 60, Now}
PriceVolume == {<<0, 0>>, <<0, 1>>, <<-1, -1>>}

Raw(s, e, t, pv) ==
  [InstrumentID |-> s, ExchangeID |-> e, UpdateTime |-> t,
   LastPrice |-> pv[1], Volume |-> pv[2]]

RawTicks ==
  {Raw(s, "SHFE", t, <<1, 1>>) : s \in Symbols, t \in FreshTimes}
  \cup {Raw(1, "SHFE", Now, pv) : pv \in PriceVolume}
  \cup {Raw(1, "SSE", Now, <<1, 1>>), Raw(1, "SHFE", 0, <<1, 1>>),
        Raw(1, "SHFE", BadTime, <<1, 1>>), Raw(EmptySymbol, "SHFE", Now, <<1, 1>>)}

\* OnRtnDepthMarketData (864-866) and _on_tick_data (562-583), on the SDK
\* thread: _process_tick_async(raw) is scheduled on the loop.  The front
\* sends ticks of the subscribed symbols (and malformed ones) after login.
max_ticks == IF "ticks" \in DOMAIN config THEN config.ticks ELSE MaxTicks

OnRtnDepthMarketData(raw) ==
  /\ sdk = "logged_in" /\ SdkMayRun
  /\ raw.InstrumentID \in subscribed_symbols \cup {EmptySymbol}
  /\ obs.arrivals < max_ticks
  /\ obs' = [obs EXCEPT !.arrivals = @ + 1]
  /\ pending' = IF loop THEN Append(pending, raw) ELSE pending
  /\ Quiet
  /\ UNCHANGED <<config, observe, set_state_calls, barVars, sanitizerVars, alert_callback,
                 gatewayVars, tick_queue, tick_cache,
                 last_tick_at, consumerVars, sdk, healthy, caller, rtask>>

\* the last tick of the symbol that went downstream, if any
LastAccepted(symbol) ==
  IF symbol \in DOMAIN obs.accepted THEN obs.accepted[symbol] ELSE NoTime

\* the timestamp of the symbol's tick that the cb-th callback got last, if any
LastDelivered(cb, symbol) ==
  IF <<cb, symbol>> \in DOMAIN obs.delivered
  THEN obs.delivered[<<cb, symbol>>] ELSE NoTime

\* _update_bar_generators (699-703) and _on_bar_complete (705-717): for
\* every period, in the order of the generators, the completed bar gets a
\* notify_callbacks coroutine scheduled on the loop; it has called nothing
\* yet.  With no bar callback registered the coroutine has nothing to do.
NewNotification(bar) == [bar |-> bar, next |-> 0, calls |-> <<>>, raised |-> FALSE]

on_bar_complete(scheduled, completed) ==
  IF bar_callbacks = <<>> \/ ~loop THEN scheduled
  ELSE LET of(period) == IF period \in DOMAIN completed /\ completed[period] # {}
                         THEN <<NewNotification(CHOOSE bar \in completed[period] : TRUE)>>
                         ELSE <<>>
       IN scheduled \o of("MINUTE_1") \o of("MINUTE_5")

\* the callback loop as it would be without the try / except around the call
StopsAtRaise(outcome) == outcome = "returns"

\* lines 618-625: an exception of a callback is logged, the loop goes on
Continues(outcome) == outcome \in {"returns", "raises"}

\* _process_tick_async (585-625) for the oldest scheduled tick: convert,
\* validate, order check, bar update, queue, cache, callbacks
ProcessTick ==
  /\ pending # <<>> /\ LoopFree
  /\ pending' = Tail(pending)
  /\ LET tick == convert_tick(Head(pending))
         errors == validate_errors(tick)
     IN IF errors # {}
        THEN /\ tick_ev' = [NoTickEv EXCEPT !.kind = "filtered",
                                            !.tick = [tick EXCEPT !.status = "FILTERED"]]
             /\ UNCHANGED <<last_tick_time, bar_generators, tick_queue, tick_cache,
                            last_tick_at, inflight, obs, bar_inflight>>
        ELSE IF ~check_tick_order(tick)
        THEN /\ tick_ev' = [NoTickEv EXCEPT !.kind = "out_of_order", !.tick = tick]
             /\ UNCHANGED <<last_tick_time, bar_generators, tick_queue, tick_cache,
                            last_tick_at, inflight, obs, bar_inflight>>
        ELSE LET updated == IF tick.symbol \in DOMAIN bar_generators
                            THEN update_bar_generators(tick)
                            ELSE <<>>
             IN /\ last_tick_time' = DictSet(last_tick_time, tick.symbol, tick.timestamp)
                /\ bar_generators' =
                     IF tick.symbol \in DOMAIN bar_generators
                     THEN [bar_generators EXCEPT ![tick.symbol] =
                             [period \in DOMAIN updated |-> updated[period][1]]]
                     ELSE bar_generators
                /\ bar_inflight' = on_bar_complete(bar_inflight,
                                       [period \in DOMAIN updated |-> updated[period][2]])
                /\ tick_queue' = put_nowait(tick_queue, tick)
                /\ tick_cache' = cache_append(tick_cache, tick)
                /\ last_tick_at' = Now
                /\ inflight' = IF tick_callbacks = <<>> THEN inflight
                                ELSE Append(inflight, [tick |-> tick, next |-> 1,
                                                       calls |-> <<1>>,
                                                       raised |-> FALSE])
                /\ tick_ev' = [NoTickEv EXCEPT
                      !.kind = "accepted", !.tick = tick,
                      !.prev = LastAccepted(tick.symbol),
                      !.bars = UNION {updated[period][2] : period \in DOMAIN updated},
                      !.cb = IF tick_callbacks = <<>> THEN 0 ELSE 1,
                      !.dropped = Len(tick_queue) >= config.queue_size]
                /\ obs' = [obs EXCEPT
                      !.accepted = DictSet(@, tick.symbol, tick.timestamp),
                      !.delivered = IF tick_callbacks = <<>> THEN @
                                    ELSE DictSet(@, <<1, tick.symbol>>, tick.timestamp)]
  /\ QuietRet /\ rc_ret' = NoRcRet
  /\ UNCHANGED <<config, observe, set_state_calls, bar_callbacks, sanitizerVars, alert_callback,
                 state, subscribed_symbols, api, login_event,
                 login_error, reconnect_interval, consecutive_failures, loop,
                 state_callbacks, notify, tick_callbacks, sdk, healthy, caller,
                 rtask>>

\* lines 618-625, a handler resumed when the callback it awaits finishes:
\* the next registered callback is called with the tick, or the handler ends
TickCallbackDone(i, outcome) ==
  /\ i \in 1..Len(inflight) /\ LoopFree
  /\ LET h == inflight[i]
     IN IF Continues(outcome) /\ h.next < Len(tick_callbacks)
        THEN /\ inflight' = [inflight EXCEPT ![i].next = h.next + 1,
                                             ![i].calls = Append(@, h.next + 1),
                                             ![i].raised = @ \/ outcome = "raises"]
             /\ tick_ev' = [NoTickEv EXCEPT
                   !.kind = "invoked", !.tick = h.tick, !.cb = h.next + 1,
                   !.prev = LastDelivered(h.next + 1, h.tick.symbol)]
             /\ obs' = [obs EXCEPT !.delivered =
                          DictSet(@, <<h.next + 1, h.tick.symbol>>, h.tick.timestamp)]
        ELSE /\ inflight' = SubSeq(inflight, 1, i - 1)
                             \o SubSeq(inflight, i + 1, Len(inflight))
             /\ tick_ev' = [NoTickEv EXCEPT
                   !.kind = "handled", !.tick = h.tick, !.calls = h.calls,
                   !.raised = h.raised \/ outcome = "raises"]
             /\ UNCHANGED obs
  /\ QuietRet /\ rc_ret' = NoRcRet
  /\ UNCHANGED <<config, observe, set_state_calls, barVars, sanitizerVars, alert_callback,
                 gatewayVars, tick_queue, tick_cache, last_tick_at,
                 pending, state_callbacks, notify, tick_callbacks, sdk, healthy,
                 caller, rtask>>

\* AbstractGateway.on_tick (base.py 206-208), called before the first connect
OnTick ==
  /\ caller.pc = "idle" /\ ~loop
  /\ Len(tick_callbacks) < MaxCallbacks
  /\ tick_callbacks' = Append(tick_callbacks, Len(tick_callbacks) + 1)
  /\ Quiet
  /\ UNCHANGED <<config, observe, set_state_calls, barVars, sanitizerVars, alert_callback,
                 gatewayVars, tickVars, state_callbacks, notify,
                 inflight, sdk, healthy, caller, rtask, obs>>

\* AbstractGateway.tick_stream (base.py 296-316), one turn of a consumer's
\* loop that gets a tick: the state is not STOPPED and the queue is not
\* empty.  (A turn on an empty queue times out after one second and changes
\* nothing.)
TickStreamNext ==
  /\ state # "STOPPED" /\ LoopFree
  /\ tick_queue # <<>>
  /\ tick_queue' = Tail(tick_queue)
  /\ tick_ev' = [NoTickEv EXCEPT !.kind = "yielded", !.tick = Head(tick_queue)]
  /\ QuietRet /\ rc_ret' = NoRcRet
  /\ UNCHANGED <<config, observe, set_state_calls, barVars, sanitizerVars, alert_callback,
                 gatewayVars, tick_cache, last_tick_at, pending,
                 consumerVars, sdk, healthy, caller, rtask, obs>>

\* ------------------------------------------------------------- SpecTick
\* a session on a line that stays up, with subscribe and unsubscribe, and
\* up to MaxTicks ticks sent by the front (or as many as the configuration says)
TickConfigs ==
  {[max_subscriptions |-> NumSymbols, initial_interval |-> 1, max_interval |-> 1,
    multiplier |-> 2, max_attempts |-> 0, alert_threshold |-> 1,
    sdk_available |-> TRUE, sdk_fast |-> FALSE, loops |-> 1,
    queue_size |-> DEFAULT_QUEUE_SIZE]}

InitTick ==
  /\ config \in TickConfigs
  /\ observe = "events"
  /\ healthy = FALSE
  /\ InitGateway
  /\ san = NoSan

NextTick ==
  \/ Connect \/ ConnectInit \/ ConnectClear \/ ConnectLogin
  \/ ConnectTimeout \/ ConnectPost
  \/ \E symbols \in SubscribeArgs : Subscribe(symbols)
  \/ SubscribeBody
  \/ \E symbols \in SubscribeArgs : Unsubscribe(symbols)
  \/ OnFrontConnected
  \/ \E is_error \in BOOLEAN : OnRspUserLogin(is_error)
  \/ \E raw \in RawTicks : OnRtnDepthMarketData(raw)
  \/ ProcessTick

SpecTick == InitTick /\ [][NextTick]_vars

\* C1: two consecutive ticks of one symbol that pass the order check and go
\* downstream have non-decreasing timestamps, whatever subscribe and
\* unsubscribe calls fall between them.
C1_AcceptedInOrder ==
  (tick_ev.kind = "accepted" /\ tick_ev.prev # NoTime)
    => tick_ev.prev <= tick_ev.tick.timestamp

\* the ticks that are in the queue or in the cache or were just handed to
\* the callbacks
Downstream ==
  {tick_queue[i] : i \in 1..Len(tick_queue)}
  \cup {tick_cache[i] : i \in 1..Len(tick_cache)}
  \cup (IF tick_ev.kind = "accepted" THEN {tick_ev.tick} ELSE {})

\* C3: every tick that is enqueued, cached or handed to a callback has a
\* non-empty symbol, a valid exchange, and volume = 0 or last_price > 0.
C3_DownstreamWellFormed ==
  \A tick \in Downstream :
    /\ tick.symbol # EmptySymbol
    /\ tick.exchange \in VALID_EXCHANGES
    /\ (tick.volume = 0 \/ tick.last_price > 0)

\* ------------------------------------------------------------ SpecFanout
\* a session on a line that stays up and answers logins, up to MaxCallbacks
\* tick callbacks registered before connect, one subscribed symbol, a tick
\* queue of QueueCapacity entries read by one tick_stream consumer, and up to
\* MaxTicks traded ticks of that symbol: one of the minute before, two at
\* different prices of the current minute
FanoutConfigs ==
  {[max_subscriptions |-> NumSymbols, initial_interval |-> 1, max_interval |-> 1,
    multiplier |-> 2, max_attempts |-> 0, alert_threshold |-> 1,
    sdk_available |-> TRUE, sdk_fast |-> FALSE, loops |-> 1,
    queue_size |-> QueueCapacity]}

FanoutTicks ==
  {Raw(1, "SHFE", Now - 60, <<1, 1>>), Raw(1, "SHFE", Now, <<1, 1>>),
   Raw(1, "SHFE", Now, <<2, 2>>)}

InitFanout ==
  /\ config \in FanoutConfigs
  /\ observe = "events"
  /\ healthy = TRUE
  /\ InitGateway
  /\ san = NoSan

NextFanout ==
  \/ OnTick
  \/ Connect \/ ConnectInit \/ ConnectClear \/ ConnectLogin \/ ConnectPost
  \/ Subscribe({1})
  \/ SubscribeBody
  \/ OnFrontConnected
  \/ \E is_error \in BOOLEAN : OnRspUserLogin(is_error)
  \/ \E raw \in FanoutTicks : OnRtnDepthMarketData(raw)
  \/ ProcessTick
  \/ \E i \in 1..MaxTicks, outcome \in {"returns", "raises"} :
       TickCallbackDone(i, outcome)
  \/ TickStreamNext

SpecFanout == InitFanout /\ [][NextFanout]_vars

\* C16: a tick that is accepted is handed to the first registered callback
\* at once, and when its handler ends it has called every registered
\* callback exactly once with that tick, in registration order, also when
\* callbacks raised.
C16_EveryCallbackOnce ==
  /\ (tick_ev.kind = "accepted" /\ tick_callbacks # <<>>) =>
       /\ inflight # <<>>
       /\ inflight[Len(inflight)].tick = tick_ev.tick
       /\ inflight[Len(inflight)].calls = <<1>>
  /\ \A i \in 1..Len(inflight) :
       inflight[i].calls = [k \in 1..inflight[i].next |-> k]
  /\ tick_ev.kind = "handled" =>
       tick_ev.calls = [k \in 1..Len(tick_callbacks) |-> tick_callbacks[k]]

\* a handler has ended after MaxCallbacks callbacks, one of which raised
C16_Witness ==
  /\ tick_ev.kind = "handled" /\ tick_ev.raised
  /\ Len(tick_ev.calls) = MaxCallbacks

\* C17: every callback gets the ticks of one symbol in non-decreasing
\* timestamp order, also when callbacks suspend and several handlers are in
\* flight: a tick handed to a callback is not older than the tick of the same
\* symbol that this callback got before.
C17_CallbackOrder ==
  (tick_ev.kind \in {"accepted", "invoked"} /\ tick_ev.cb # 0
   /\ tick_ev.prev # NoTime)
    => tick_ev.prev <= tick_ev.tick.timestamp

\* C18: the tick queue never holds more than its capacity; an accepted tick
\* that finds the queue full is not enqueued and leaves the queue as it is,
\* its handler goes on without waiting, and the tick is still appended to
\* the cache and handed to the first callback.
C18_DropNewestOnFull ==
  [][/\ Len(tick_queue') <= config.queue_size
     /\ (tick_ev'.kind = "accepted" /\ Len(tick_queue) >= config.queue_size) =>
          /\ tick_queue' = tick_queue
          /\ tick_ev'.dropped
          /\ tick_cache' = Append(tick_cache, tick_ev'.tick)
          /\ tick_callbacks # <<>> =>
               inflight' = Append(inflight, [tick |-> tick_ev'.tick, next |-> 1,
                                             calls |-> <<1>>, raised |-> FALSE])]_vars

\* an accepted tick has just found the queue full and went to a callback
C18_Witness ==
  /\ tick_ev.kind = "accepted" /\ tick_ev.dropped
  /\ Len(tick_queue) = config.queue_size
  /\ tick_ev.cb = 1

\* ---------------------------------------------------------- SpecValidate
\* TickData.validate (models.py 148-184) as the tests call it: the errors
\* are collected, and any error makes the status INVALID
Validate(tick) ==
  /\ tick_ev' = [NoTickEv EXCEPT
        !.kind = "validated",
        !.errors = validate_errors(tick),
        !.tick = [tick EXCEPT !.status = IF validate_errors(tick) # {}
                                         THEN "INVALID" ELSE @]]
  /\ QuietRet /\ rc_ret' = NoRcRet
  /\ UNCHANGED <<config, observe, set_state_calls, barVars, sanitizerVars, alert_callback,
                 gatewayVars, tickVars, consumerVars, sdk,
                 healthy, caller, rtask, obs>>

\* gateways configured with data_filter.stale_threshold_seconds of 60 s and
\* of 3600 s (config.py 124-129, range 60..86400, default 3600)
ValidateConfigs ==
  {[max_subscriptions |-> 1, initial_interval |-> 1, max_interval |-> 1,
    multiplier |-> 2, max_attempts |-> 0, alert_threshold |-> 1,
    sdk_available |-> TRUE, sdk_fast |-> FALSE, loops |-> 1,
    stale_threshold_seconds |-> th] : th \in {60, 3600}}

\* ticks with and without a symbol, of a valid and of an unknown exchange,
\* aged 0 s, 120 s, exactly 3600 s, 3601 s and 3601 s ahead of the clock,
\* pre-open, zero or negative price with volume, and traded
ValidateTicks ==
  {[symbol |-> s, exchange |-> e, timestamp |-> t, last_price |-> pv[1],
    volume |-> pv[2], status |-> "VALID"] :
     s \in {EmptySymbol, 1}, e \in {"SHFE", "SSE"},
     t \in {Now, Now - 120, Now - 3600, Now - 3601, Now + 3601},
     pv \in {<<0, 0>>, <<0, 1>>, <<-1, 100>>, <<1, 0>>, <<1, 1>>}}

InitValidate ==
  /\ config \in ValidateConfigs
  /\ observe = "events"
  /\ healthy = TRUE
  /\ InitGateway
  /\ san = NoSan

NextValidate == \E tick \in ValidateTicks : Validate(tick)

SpecValidate == InitValidate /\ [][NextValidate]_vars

\* C19: validate() returns ok exactly when the symbol is non-empty, the
\* exchange is valid, not (volume > 0 and last_price <= 0), and the tick is
\* at most the configured stale_threshold_seconds away from now; a pre-open
\* tick (volume 0, price 0) does not fail the price rule, and price -1 with
\* volume 100 fails it with status INVALID.
C19_ValidateRules ==
  tick_ev.kind = "validated" =>
    LET tick == tick_ev.tick
    IN /\ (tick_ev.errors = {}) <=>
            /\ tick.symbol # EmptySymbol
            /\ tick.exchange \in VALID_EXCHANGES
            /\ ~(tick.volume > 0 /\ tick.last_price <= 0)
            /\ Abs(Now - tick.timestamp) <= config.stale_threshold_seconds
       /\ (tick.volume = 0 /\ tick.last_price = 0) => "price" \notin tick_ev.errors
       /\ (tick.volume = 100 /\ tick.last_price = -1) =>
            ("price" \in tick_ev.errors /\ tick.status = "INVALID")

\* C20: every bar that a bar generator holds, and every bar it has just
\* emitted as completed, has low <= open <= high and low <= close <= high.
C20_BarOhlc ==
  \A bar \in tick_ev.bars \cup
             {bar_generators[s][period].current_bar[1] :
                <<s, period>> \in
                  {sp \in (DOMAIN bar_generators) \X {"MINUTE_1", "MINUTE_5"} :
                     bar_generators[sp[1]][sp[2]].current_bar # <<>>}} :
    /\ bar.low_price <= bar.open_price /\ bar.open_price <= bar.high_price
    /\ bar.low_price <= bar.close_price /\ bar.close_price <= bar.high_price

\* a generator holds a bar that a second tick of the same minute has moved
C20_Witness ==
  /\ tick_ev.kind = "accepted"
  /\ tick_ev.tick.symbol \in DOMAIN bar_generators
  /\ bar_generators[tick_ev.tick.symbol]["MINUTE_1"].current_bar # <<>>
  /\ LET bar == bar_generators[tick_ev.tick.symbol]["MINUTE_1"].current_bar[1]
     IN bar.open_price < bar.high_price /\ bar.close_price = bar.high_price

\* ------------------------------------------- claims under SpecSession
\* the _do_reconnect coroutines that have started and not yet returned
Running == {t \in RTasks : rtask[t].pc \notin {"none", "rc_start"}}

\* C22: at no time are two _do_reconnect executions running, whatever
\* front-disconnect callbacks the SDK thread delivers.
C22_OneReconnectLoop == Cardinality(Running) <= 1

\* a callback of the native SDK has just run on the SDK thread
SdkCallback == sdk' # sdk /\ sdk' \in {"front", "logged_in", "login_failed", "lost"}

\* C23: a step of an SDK callback, which runs on the SDK thread, writes
\* none of the gateway's fields (session state, login signal, login error,
\* subscribed set, last-seen map): it only schedules work onto the loop.
C23_SdkThreadOnlySchedules == [][SdkCallback => UNCHANGED gatewayVars]_vars

\* C24: when the SDK has answered the login of the handle that connect()
\* initialized without an error, before or after connect() began to wait,
\* connect() does not end in a timeout: it finds the login signal,
\* moves to CONNECTED and resets the reconnect state.
C24_LoginNeverLost ==
  (ret.op = "connect" /\ ret.exc = "CONNECTION_TIMEOUT") => sdk # "logged_in"

\* a _do_reconnect has just found its login answered without an error
ReconnectLoggedIn ==
  \E t \in RTasks : rtask[t].pc = "rc_wait" /\ rtask'[t].pc = "rc_post"

\* C25: a reconnect that succeeds takes the session from RECONNECTING to
\* CONNECTING and from there to CONNECTED: the step of _do_reconnect that
\* sets CONNECTED starts in CONNECTING.
C25_ReconnectViaConnecting ==
  [][(ReconnectLoggedIn /\ state' = "CONNECTED") => state = "CONNECTING"]_vars

\* connect() has just created a native handle
ConnectCreatesHandle ==
  caller.pc = "connect_init" /\ caller'.pc = "connect_clear" /\ api' # NoHandle

\* C26: a handle is created only when no other handle is live: connect()
\* finds no handle that it would overwrite without releasing it.
C26_NoHandleOverwritten == [][ConnectCreatesHandle => api = NoHandle]_vars

\* ------------------------------------------------------------- SpecAlert
\* the application wires an alert sink, one that returns or one that
\* raises, into _alert_callback (line 149) before it connects
SetAlertCallback(callback) ==
  /\ state = "DISCONNECTED" /\ caller.pc = "idle" /\ alert_callback = "None"
  /\ alert_callback' = callback
  /\ Quiet
  /\ UNCHANGED <<config, observe, set_state_calls, barVars, sanitizerVars, gatewayVars, tickVars,
                 consumerVars, sdk, healthy, caller, rtask, obs>>

\* alert_threshold 2 (config.py 91, at least 1, default 10), one reconnect
\* loop
AlertConfigs ==
  {[max_subscriptions |-> 1, initial_interval |-> 1, max_interval |-> 1,
    multiplier |-> 2, max_attempts |-> 0, alert_threshold |-> 2,
    sdk_available |-> TRUE, sdk_fast |-> FALSE, loops |-> 1]}

InitAlert ==
  /\ config \in AlertConfigs
  /\ observe = "events"
  /\ healthy = FALSE
  /\ InitGateway
  /\ san = NoSan

NextAlert ==
  \/ \E callback \in {"returns", "raises"} : SetAlertCallback(callback)
  \/ NextReconnect

SpecAlert == InitAlert /\ [][NextAlert]_vars

\* a _do_reconnect has just counted an attempt
AttemptCounted ==
  \E t \in RTasks : rtask[t].pc = "rc_loop" /\ rtask'[t].pc = "rc_attempt"

\* a _do_reconnect has just gone on after its login was answered
LoginHandled == \E t \in RTasks : rtask[t].pc = "rc_post" /\ rtask'[t] # rtask[t]

\* C27: with an alert sink wired, the reconnect loop calls it with CRITICAL
\* on exactly the attempts whose consecutive-failure counter is at least
\* alert_threshold; the loop goes on to the attempt also when the sink
\* raises; and a successful login of the loop resets the counter to 0.
C27_AlertAtThreshold ==
  [][/\ (AttemptCounted /\ alert_callback # "None") =>
          (rc_ret'.alert = "CRITICAL"
             <=> consecutive_failures' >= config.alert_threshold)
     /\ ~AttemptCounted => rc_ret'.alert = "none"
     /\ LoginHandled => consecutive_failures' = 0]_vars

\* the sink has just raised on an attempt at the threshold, and the loop is
\* about to make the attempt
C27_Witness ==
  /\ rc_ret.alert = "CRITICAL" /\ rc_ret.alert_raised
  /\ consecutive_failures >= config.alert_threshold
  /\ \E t \in RTasks : rtask[t].pc = "rc_attempt"

\* ------------------------------------------------------------- SpecBatch
\* subscribe and unsubscribe with the SDK calls observed
BatchSize == 1

\* a healthy line, up to NumSymbols subscriptions, BatchSize symbols per SDK
\* call, with and without the SDK installed
BatchConfigs ==
  {[max_subscriptions |-> NumSymbols, initial_interval |-> 1, max_interval |-> 1,
    multiplier |-> 2, max_attempts |-> 0, alert_threshold |-> 1,
    sdk_available |-> a, sdk_fast |-> FALSE, loops |-> 1,
    queue_size |-> DEFAULT_QUEUE_SIZE, batch_size |-> BatchSize] : a \in BOOLEAN}

\* one traded tick per symbol
BatchTicks == {Raw(s, "SHFE", Now, <<1, 1>>) : s \in Symbols}

InitBatch ==
  /\ config \in BatchConfigs
  /\ observe = "calls"
  /\ healthy = TRUE
  /\ InitGateway
  /\ san = NoSan

NextBatch ==
  \/ Connect \/ ConnectInit \/ ConnectClear \/ ConnectLogin \/ ConnectPost
  \/ \E symbols \in SubscribeArgs : Subscribe(symbols)
  \/ SubscribeBody
  \/ \E symbols \in SubscribeArgs : Unsubscribe(symbols)
  \/ OnFrontConnected
  \/ \E is_error \in BOOLEAN : OnRspUserLogin(is_error)
  \/ \E raw \in BatchTicks : OnRtnDepthMarketData(raw)
  \/ ProcessTick

SpecBatch == InitBatch /\ [][NextBatch]_vars

\* subscribe has just returned after its batch loop
SubscribeReturns == ret'.op = "subscribe" /\ ret'.exc = "none"

\* C28: subscribe hands the new symbols to the SDK in calls of at most
\* batch_size (100) symbols, every new symbol in exactly one call; batches
\* may fail without failing the call; the result is exactly what the call
\* added to the subscribed set, it is made of whole batches, every symbol of
\* it has a bar aggregator, and the state is RUNNING.
C28_SubscribeBatches ==
  [][SubscribeReturns =>
       LET new_symbols == ret'.arg \ subscribed_symbols
           batches == ret'.batches
       IN /\ api # NoHandle =>
               /\ \A b \in DOMAIN batches :
                    batches[b] # {} /\ Cardinality(batches[b]) <= batch_size
               /\ UNION {batches[b] : b \in DOMAIN batches} = new_symbols
               /\ \A b, c \in DOMAIN batches :
                    b # c => batches[b] \cap batches[c] = {}
               /\ Len(batches) = ret'.calls
               /\ \E ok \in SUBSET DOMAIN batches :
                    ret'.result = UNION {batches[b] : b \in ok}
          /\ ret'.result = subscribed_symbols' \ subscribed_symbols
          /\ ret'.result \subseteq new_symbols
          /\ ret'.result \subseteq DOMAIN bar_generators'
          /\ state' = "RUNNING"]_vars

\* a subscribe of several symbols has just returned with one batch failed
\* and another one subscribed
C28_Witness ==
  /\ ret.op = "subscribe" /\ ret.exc = "none"
  /\ Len(ret.batches) > 1
  /\ ret.result # {} /\ ret.result # ret.arg
  /\ ret.result = subscribed_symbols

\* what unsubscribe(S) that has just returned did to the symbols of S that
\* were subscribed and to the symbols outside S
UnsubscribeEffect ==
  LET S == ret'.arg
      to_unsub == S \cap subscribed_symbols
  IN /\ ret'.exc = "none"
     /\ ret'.result = to_unsub
     /\ to_unsub \cap subscribed_symbols' = {}
     /\ to_unsub \cap DOMAIN last_tick_time' = {}
     /\ to_unsub \cap DOMAIN bar_generators' = {}
     /\ subscribed_symbols' \ S = subscribed_symbols \ S
     /\ \A s \in Symbols \ S :
          /\ s \in DOMAIN last_tick_time' <=> s \in DOMAIN last_tick_time
          /\ s \in DOMAIN last_tick_time => last_tick_time'[s] = last_tick_time[s]
          /\ s \in DOMAIN bar_generators' <=> s \in DOMAIN bar_generators
          /\ s \in DOMAIN bar_generators => bar_generators'[s] = bar_generators[s]

\* C29: unless the SDK call raises, unsubscribe(S) returns exactly the
\* symbols of S that were subscribed, none of them is left in the subscribed
\* set, the last-seen map or the bar aggregators, and the entries of the
\* symbols outside S are as before.
C29_UnsubscribeFrame ==
  [][(ret'.op = "unsubscribe" /\ ret'.sdk_ret # "raised") => UnsubscribeEffect]_vars

\* C29 as stated: every unsubscribe(S) that returns has this effect.
C29_Original == [][ret'.op = "unsubscribe" => UnsubscribeEffect]_vars

\* unsubscribe has just removed a symbol that had ticks, and another
\* symbol is still subscribed with its last-seen entry
C29_Witness ==
  /\ ret.op = "unsubscribe" /\ ret.result # {}
  /\ \E s \in ret.result : s \in DOMAIN obs.accepted
  /\ \E s \in subscribed_symbols \ ret.arg : s \in DOMAIN last_tick_time

\* C30: when the SDK's unsubscribe call fails, by raising or with a
\* non-zero return code, unsubscribe raises nothing, returns an empty list
\* and leaves the subscribed set, the last-seen map and the bar aggregators
\* as they were.
C30_FailedUnsubscribeKeepsAll ==
  [][(ret'.op = "unsubscribe" /\ ret'.sdk_ret \in {"raised", "-1"}) =>
       /\ ret'.exc = "none" /\ ret'.result = {}
       /\ UNCHANGED <<subscribed_symbols, last_tick_time, bar_generators>>]_vars

\* ------------------------------------------------ claims under SpecFanout
\* C33: on a tick that reaches the aggregators of its symbol, each period's
\* aggregator emits its current bar exactly when it has one and the tick's
\* period start is later than that bar's start; the first tick emits
\* nothing; a new bar opens at the period start with O = H = L = C =
\* last_price and V = volume; a tick of the current period keeps the open
\* and sets H = max(H, price), L = min(L, price), C = price, V = volume.
C33_BarAggregation ==
  [][(tick_ev'.kind = "accepted" /\ tick_ev'.tick.symbol \in DOMAIN bar_generators) =>
       LET tick == tick_ev'.tick
       IN \A period \in {"MINUTE_1", "MINUTE_5"} :
            LET seconds == IF period = "MINUTE_1" THEN 60 ELSE 300
                start == tick.timestamp - (tick.timestamp % seconds)
                old == bar_generators[tick.symbol][period].current_bar
                new == bar_generators'[tick.symbol][period].current_bar[1]
                emitted == {bar \in tick_ev'.bars : bar.period = period}
            IN IF old = <<>> \/ start > old[1].bar_datetime
               THEN /\ emitted = {old[i] : i \in 1..Len(old)}
                    /\ new.bar_datetime = start
                    /\ new.open_price = tick.last_price
                    /\ new.high_price = tick.last_price
                    /\ new.low_price = tick.last_price
                    /\ new.close_price = tick.last_price
                    /\ new.volume = tick.volume
               ELSE /\ emitted = {}
                    /\ new.bar_datetime = old[1].bar_datetime
                    /\ new.open_price = old[1].open_price
                    /\ new.high_price = IF tick.last_price > old[1].high_price
                                        THEN tick.last_price ELSE old[1].high_price
                    /\ new.low_price = IF tick.last_price < old[1].low_price
                                       THEN tick.last_price ELSE old[1].low_price
                    /\ new.close_price = tick.last_price
                    /\ new.volume = tick.volume]_vars

\* the tick of a new minute has just emitted the bar of the minute before
C33_Witness ==
  /\ tick_ev.kind = "accepted"
  /\ \E bar \in tick_ev.bars :
       /\ bar.period = "MINUTE_1"
       /\ bar.bar_datetime < tick_ev.tick.timestamp - 59
       /\ bar.close_price = bar.open_price

\* C32: after validate(), a tick whose only failing rule is staleness has
\* the status STALE, and a tick that fails another rule has the status
\* INVALID.
C32_StaleStatus ==
  tick_ev.kind = "validated" =>
    /\ tick_ev.errors = {"stale"} => tick_ev.tick.status = "STALE"
    /\ tick_ev.errors \ {"stale"} # {} => tick_ev.tick.status = "INVALID"

\* ------------------------------------------------------------ SpecFilter
\* the gateway of SpecFanout fed with ticks of one symbol that pass, fail
\* validation (zero price with volume, unknown exchange) or lie a minute back
FilterTicks ==
  {Raw(1, "SHFE", Now - 60, <<1, 1>>), Raw(1, "SHFE", Now, <<1, 1>>),
   Raw(1, "SHFE", Now, <<0, 1>>), Raw(1, "SSE", Now, <<1, 1>>),
   Raw(1, "SHFE", Now + CHINA_UTC_OFFSET_SECONDS, <<1, 1>>)}

NextFilter ==
  \/ OnTick
  \/ Connect \/ ConnectInit \/ ConnectClear \/ ConnectLogin \/ ConnectPost
  \/ Subscribe({1})
  \/ SubscribeBody
  \/ OnFrontConnected
  \/ \E is_error \in BOOLEAN : OnRspUserLogin(is_error)
  \/ \E raw \in FilterTicks : OnRtnDepthMarketData(raw)
  \/ ProcessTick
  \/ \E i \in 1..MaxTicks, outcome \in {"returns", "raises"} :
       TickCallbackDone(i, outcome)

SpecFilter == InitFanout /\ [][NextFilter]_vars

\* a tick handler has just run on the oldest scheduled record
Handled == pending # <<>> /\ pending' = Tail(pending)

\* the handler left everything downstream of the checks alone
NothingDownstream ==
  /\ UNCHANGED <<last_tick_time, bar_generators, tick_queue, tick_cache,
                 last_tick_at, inflight>>
  /\ tick_ev'.cb = 0 /\ tick_ev'.bars = {}

C35_ExchangeClockIsFresh ==
  [][(Handled /\ Head(pending).UpdateTime = Now + CHINA_UTC_OFFSET_SECONDS) =>
       /\ Abs(Now - tick_ev'.tick.timestamp) <= TIMESTAMP_STALE_THRESHOLD_SECONDS
       /\ tick_ev'.kind # "filtered"]_vars

\* ---------------------------------------------- claims under SpecReconnect
\* C36: when the reconnect loop wakes from its login wait and the login
\* response of the handle created by that attempt carried no error, the
\* attempt counts as a successful login (CONNECTED, subscriptions restored
\* next), whatever an earlier attempt left in _login_error.
C36_LoginErrorDoesNotLeak ==
  [][\A t \in RTasks :
       (/\ rtask[t].pc = "rc_wait" /\ rtask'[t].pc # "rc_wait"
        /\ login_event /\ sdk = "logged_in") =>
         /\ state' = "CONNECTED"
         /\ rtask'[t].pc = "rc_post"]_vars

\* ------------------------------------------------------------- SpecCache
\* The fan-out of SpecFanout with a cache of CacheCapacity entries, so that
\* MaxTicks accepted ticks fill the cache and push entries out of it.
CacheConfigs ==
  {[max_subscriptions |-> NumSymbols, initial_interval |-> 1, max_interval |-> 1,
    multiplier |-> 2, max_attempts |-> 0, alert_threshold |-> 1,
    sdk_available |-> TRUE, sdk_fast |-> FALSE, loops |-> 1,
    queue_size |-> QueueCapacity, cache_size |-> CacheCapacity]}

InitCache ==
  /\ config \in CacheConfigs
  /\ observe = "events"
  /\ healthy = TRUE
  /\ InitGateway
  /\ san = NoSan

SpecCache == InitCache /\ [][NextFanout]_vars

C38_OnlySubscribedDownstream ==
  [][tick_ev'.kind = "accepted" =>
       tick_ev'.tick.symbol \in subscribed_symbols']_vars

\* ------------------------------------------------------------ SpecNative
\* One application task connects, subscribes, unsubscribes and disconnects
\* on a healthy line; obs.native follows what the native handle of the
\* moment has been asked, successfully, to send.
InitNative ==
  /\ config \in FanoutConfigs
  /\ observe = "native"
  /\ healthy = TRUE
  /\ InitGateway
  /\ san = NoSan

NextNative ==
  \/ Connect \/ ConnectInit \/ ConnectClear \/ ConnectLogin \/ ConnectPost
  \/ \E symbols \in SubscribeArgs : Subscribe(symbols)
  \/ SubscribeBody
  \/ \E symbols \in SubscribeArgs : Unsubscribe(symbols)
  \/ Disconnect
  \/ OnFrontConnected
  \/ \E is_error \in BOOLEAN : OnRspUserLogin(is_error)

SpecNative == InitNative /\ [][NextNative]_vars

\* C37: whenever the session is RUNNING, the subscribed set is the set of
\* symbols that SDK calls on the current native handle have subscribed and
\* not unsubscribed since.
C37_SubscribedMatchesHandle ==
  state = "RUNNING" => subscribed_symbols = obs.native

\* -------------------------------------------------------------- SpecBars
\* Bar callbacks registered before connect, one subscribed symbol and up to
\* MaxBarTicks traded ticks of three successive minutes, the first two of
\* them in one five-minute period.

\* AbstractGateway.on_bar (base.py 214-216), called before the first connect
OnBar ==
  /\ caller.pc = "idle" /\ ~loop
  /\ Len(bar_callbacks) < MaxCallbacks
  /\ bar_callbacks' = Append(bar_callbacks, Len(bar_callbacks) + 1)
  /\ Quiet
  /\ UNCHANGED <<config, observe, set_state_calls, bar_inflight, sanitizerVars, alert_callback,
                 gatewayVars, tickVars, consumerVars, sdk, healthy, caller,
                 rtask, obs>>

\* the loop over the bar callbacks as it would be without the try / except
BarStopsAtRaise(outcome) == outcome = "returns"

\* notify_callbacks (710-715): an exception of a callback is logged and the
\* loop goes on
BarContinues(outcome) == outcome \in {"returns", "raises"}

\* notify_callbacks of _on_bar_complete (710-715): the i-th scheduled
\* coroutine starts and awaits the first callback, or the callback it awaits
\* returns or raises and it awaits the next one or ends
BarCallbackDone(i, outcome) ==
  /\ i \in 1..Len(bar_inflight) /\ LoopFree
  /\ LET n == bar_inflight[i]
     IN IF n.next = 0
        THEN /\ outcome = "returns"
             /\ bar_inflight' = [bar_inflight EXCEPT ![i].next = 1, ![i].calls = <<1>>]
             /\ tick_ev' = [NoTickEv EXCEPT !.kind = "bar_invoked", !.bars = {n.bar},
                                            !.cb = 1]
        ELSE IF BarContinues(outcome) /\ n.next < Len(bar_callbacks)
        THEN /\ bar_inflight' = [bar_inflight EXCEPT
                                   ![i].next = n.next + 1,
                                   ![i].calls = Append(@, n.next + 1),
                                   ![i].raised = @ \/ outcome = "raises"]
             /\ tick_ev' = [NoTickEv EXCEPT !.kind = "bar_invoked", !.bars = {n.bar},
                                            !.cb = n.next + 1]
        ELSE /\ bar_inflight' = SubSeq(bar_inflight, 1, i - 1)
                                 \o SubSeq(bar_inflight, i + 1, Len(bar_inflight))
             /\ tick_ev' = [NoTickEv EXCEPT
                   !.kind = "bar_delivered", !.bars = {n.bar}, !.calls = n.calls,
                   !.raised = n.raised \/ outcome = "raises"]
  /\ QuietRet /\ rc_ret' = NoRcRet
  /\ UNCHANGED <<config, observe, set_state_calls, bar_callbacks, sanitizerVars, alert_callback,
                 gatewayVars, tickVars, consumerVars, sdk, healthy, caller,
                 rtask, obs>>

BarConfigs ==
  {[max_subscriptions |-> NumSymbols, initial_interval |-> 1, max_interval |-> 1,
    multiplier |-> 2, max_attempts |-> 0, alert_threshold |-> 1,
    sdk_available |-> TRUE, sdk_fast |-> FALSE, loops |-> 1,
    queue_size |-> DEFAULT_QUEUE_SIZE, ticks |-> MaxBarTicks]}

BarTicks ==
  {Raw(1, "SHFE", Now - 120, <<1, 1>>), Raw(1, "SHFE", Now - 60, <<2, 2>>),
   Raw(1, "SHFE", Now, <<1, 3>>)}

InitBars ==
  /\ config \in BarConfigs
  /\ observe = "events"
  /\ healthy = TRUE
  /\ InitGateway
  /\ san = NoSan

NextBars ==
  \/ OnBar
  \/ Connect \/ ConnectInit \/ ConnectClear \/ ConnectLogin \/ ConnectPost
  \/ Subscribe({1})
  \/ SubscribeBody
  \/ OnFrontConnected
  \/ \E is_error \in BOOLEAN : OnRspUserLogin(is_error)
  \/ \E raw \in BarTicks : OnRtnDepthMarketData(raw)
  \/ ProcessTick
  \/ \E i \in 1..(2 * MaxBarTicks), outcome \in {"returns", "raises"} :
       BarCallbackDone(i, outcome)

SpecBars == InitBars /\ [][NextBars]_vars

\* C39: an aggregator emits only its in-progress bar, and afterwards its
\* in-progress bar starts strictly later; the start of an aggregator's
\* in-progress bar never goes back: so the emitted bars of an aggregator have
\* strictly increasing start times and no in-progress bar is emitted twice.
\* Every emitted bar gets one notification of its own, a notification leaves
\* only when it has ended, and when it ends it has called every registered
\* bar callback exactly once, in registration order, also when callbacks
\* raised.
C39_BarsEmittedAndDelivered ==
  [][/\ \A symbol \in DOMAIN bar_generators \cap DOMAIN bar_generators' :
          \A period \in {"MINUTE_1", "MINUTE_5"} :
            LET old == bar_generators[symbol][period]
                new == bar_generators'[symbol][period]
                emitted == IF tick_ev'.kind = "accepted" /\ tick_ev'.tick.symbol = symbol
                           THEN {bar \in tick_ev'.bars : bar.period = period}
                           ELSE {}
            IN /\ new.last_bar_time >= old.last_bar_time
               /\ Cardinality(emitted) <= 1
               /\ \A bar \in emitted :
                    /\ old.current_bar = <<bar>>
                    /\ bar.bar_datetime = old.last_bar_time
                    /\ new.last_bar_time > bar.bar_datetime
                    /\ new.current_bar[1].bar_datetime = new.last_bar_time
     /\ LET before == Len(bar_inflight)
            after == Len(bar_inflight')
        IN IF tick_ev'.kind = "accepted" /\ bar_callbacks # <<>>
           THEN /\ after = before + Cardinality(tick_ev'.bars)
                /\ SubSeq(bar_inflight', 1, before) = bar_inflight
                /\ {bar_inflight'[k].bar : k \in (before + 1)..after} = tick_ev'.bars
                /\ \A k \in (before + 1)..after : bar_inflight'[k].calls = <<>>
           ELSE IF tick_ev'.kind = "bar_delivered"
           THEN /\ after = before - 1
                /\ tick_ev'.calls = [k \in 1..Len(bar_callbacks) |-> bar_callbacks[k]]
           ELSE /\ after = before
                /\ \A k \in 1..before : bar_inflight'[k].bar = bar_inflight[k].bar
     /\ \A k \in 1..Len(bar_inflight') :
          bar_inflight'[k].calls = [c \in 1..bar_inflight'[k].next |-> c]]_vars

\* the second bar of the one-minute aggregator has been delivered to
\* MaxCallbacks callbacks, one of which raised
C39_Witness ==
  /\ tick_ev.kind = "bar_delivered" /\ tick_ev.raised
  /\ Len(tick_ev.calls) = MaxCallbacks
  /\ \E bar \in tick_ev.bars : bar.period = "MINUTE_1" /\ bar.bar_datetime = Now - 60

\* --------------------------------------------------------- SpecListeners
\* _set_state as the coroutines of the gateway call it: subscribe sets
\* SUBSCRIBING and RUNNING, _do_reconnect sets RECONNECTING, CONNECTED and
\* RUNNING, each from its own task, so that a call can start while the
\* listeners of another are suspended.  obs.seen[k] is the new state of the
\* notification that listener k got last.
ListenerStates == {"SUBSCRIBING", "RUNNING", "RECONNECTING", "CONNECTED"}

\* listener k is called with (old, new)
Invoked(k, old, new) ==
  /\ notify' = [pc |-> "invoked", old |-> old, new |-> new, next |-> k,
                calls |-> <<>>, raised |-> FALSE]
  /\ obs' = [obs EXCEPT !.seen = DictSet(@, k, new)]

\* AbstractGateway._set_state(new) (base.py 181-200) called by a task while
\* up to MaxSetStateCalls - 1 other calls are suspended in a listener: with a
\* new state it sets the state and awaits the first listener
SetStateCall(new) ==
  /\ new # state
  /\ Len(set_state_calls) < MaxSetStateCalls
  /\ state' = new
  /\ IF state_callbacks = <<>>
     THEN /\ notify' = [NoNotify EXCEPT !.pc = "returned", !.old = state, !.new = new]
          /\ UNCHANGED <<set_state_calls, obs>>
     ELSE /\ set_state_calls' = Append(set_state_calls,
                                       [old |-> state, new |-> new, next |-> 1])
          /\ Invoked(1, state, new)
  /\ Quiet
  /\ UNCHANGED <<config, observe, barVars, sanitizerVars, alert_callback,
                 subscribed_symbols, bar_generators,
                 last_tick_time, api, login_event, login_error,
                 reconnect_interval, consecutive_failures, loop, tickVars,
                 state_callbacks, tick_callbacks, inflight, sdk, healthy, caller,
                 rtask>>

\* base.py 196-200: the listener that the i-th suspended call awaits returns
\* or raises; the call goes on to the next listener with its own (old, new),
\* or returns
SetStateResume(i, outcome) ==
  /\ i \in 1..Len(set_state_calls)
  /\ LET call == set_state_calls[i]
     IN IF ListenerContinues(outcome) /\ call.next < Len(state_callbacks)
        THEN /\ set_state_calls' = [set_state_calls EXCEPT ![i].next = @ + 1]
             /\ Invoked(call.next + 1, call.old, call.new)
        ELSE /\ set_state_calls' = SubSeq(set_state_calls, 1, i - 1)
                                    \o SubSeq(set_state_calls, i + 1,
                                              Len(set_state_calls))
             /\ notify' = [NoNotify EXCEPT !.pc = "returned", !.old = call.old,
                                            !.new = call.new,
                                            !.raised = outcome = "raises"]
             /\ UNCHANGED obs
  /\ Quiet
  /\ UNCHANGED <<config, observe, barVars, sanitizerVars, alert_callback,
                 gatewayVars, tickVars, state_callbacks,
                 tick_callbacks, inflight, sdk, healthy, caller, rtask>>

NextListeners ==
  \/ (set_state_calls = <<>> /\ OnStateChange)
  \/ \E new \in ListenerStates : SetStateCall(new)
  \/ \E i \in 1..MaxSetStateCalls, outcome \in {"returns", "raises"} :
       SetStateResume(i, outcome)

SpecListeners == InitState /\ [][NextListeners]_vars

\* C40: for every listener, the old state of a notification it receives is
\* the new state of the notification it received before, also when a
\* transition starts while the listeners of another are suspended.
C40_ListenersSeeTransitionsInOrder ==
  [][(set_state_calls' # set_state_calls /\ notify'.pc = "invoked"
      /\ notify'.next \in DOMAIN obs.seen) =>
       obs.seen[notify'.next] = notify'.old]_vars

\* ---------------------------------------------------------- SpecSanitize
\* _sensitive.py and GatewayException.__init__ (exceptions.py 67-87).
\* A key is a word in some letter case ("password", "PASSWORD", "Password");
\* a context is a set of <<key, value>> items with distinct keys; a value is
\* a text, or a nested dict (text "dict") or a list (text "list") of inner
\* items.
MaxKeys == 2

Words == {"password", "host", "request"}
Cases == {"lower", "upper", "mixed"}
ContextKeys == [word : Words, cased : Cases]
Key(word) == [word |-> word, cased |-> "lower"]

\* a match that tells the letter cases apart
exact(key) == key

\* str.lower()
lower(key) == [key EXCEPT !.cased = "lower"]

REDACTED_PLACEHOLDER == "***REDACTED***"
MAX_CONTEXT_SIZE_BYTES == 1024

\* of the nineteen built-in keys the contexts here use "password"
DEFAULT_SENSITIVE_KEYS == {Key("password")}

get_sensitive_keys == DEFAULT_SENSITIVE_KEYS \cup runtime_sensitive_keys

Text(text) == [text |-> text, inner |-> {}]
Dict(items) == [text |-> "dict", inner |-> items]
List(keys) == [text |-> "list", inner |-> {<<k, Text("")>> : k \in keys}]

\* a text longer than the size limit
BigText == Text("big")

\* sys.getsizeof(str(sanitized)): 49 bytes of header and the characters
RECURSIVE Chars(_)
Chars(items) ==
  IF items = {} THEN 0
  ELSE LET item == CHOOSE e \in items : TRUE
       IN (IF item[2] = BigText THEN MAX_CONTEXT_SIZE_BYTES ELSE 16)
          + Chars(items \ {item})

getsizeof(items) == 49 + Chars(items)

sanitize_context(context, max_size) ==
  IF context = {} THEN {}
  ELSE LET current_sensitive == get_sensitive_keys
           sanitized == {<<item[1], IF lower(item[1]) \in current_sensitive
                                    THEN Text(REDACTED_PLACEHOLDER)
                                    ELSE item[2]>> : item \in context}
           size_estimate == getsizeof(sanitized)
       IN IF size_estimate > max_size
          THEN {<<Key("_truncated"), Text("True")>>,
                <<Key("_original_keys"), List({item[1] : item \in context})>>,
                <<Key("_size_bytes"), Text("size_estimate")>>}
          ELSE sanitized

add_sensitive_key(key) ==
  /\ runtime_sensitive_keys' = runtime_sensitive_keys \cup {lower(key)}
  /\ san' = [san EXCEPT !.op = "none", !.result = {}]
  /\ Quiet
  /\ UNCHANGED <<config, observe, set_state_calls, barVars, gatewayVars, tickVars,
                 consumerVars, sdk,
                 healthy, caller, rtask, obs, alert_callback>>

\* sanitize_context(context) with the default max_size
SanitizeContext ==
  /\ san' = [op |-> "sanitize_context", context |-> san.context,
             result |-> sanitize_context(san.context, MAX_CONTEXT_SIZE_BYTES)]
  /\ Quiet
  /\ UNCHANGED <<config, observe, set_state_calls, barVars, gatewayVars, tickVars,
                 consumerVars, sdk,
                 healthy, caller, rtask, obs, runtime_sensitive_keys,
                 alert_callback>>

\* GatewayException(message, error_code, context): _context is the
\* read-only view of the sanitized context
GatewayException ==
  /\ san' = [op |-> "GatewayException", context |-> san.context,
             result |-> sanitize_context(san.context, MAX_CONTEXT_SIZE_BYTES)]
  /\ Quiet
  /\ UNCHANGED <<config, observe, set_state_calls, barVars, gatewayVars, tickVars,
                 consumerVars, sdk,
                 healthy, caller, rtask, obs, runtime_sensitive_keys,
                 alert_callback>>

\* the values of a context: a short text, a text above the size limit, and
\* a nested dict that holds a password
ContextValues == {Text("v"), BigText, Dict({<<Key("password"), Text("v")>>})}

\* the contexts of at most MaxKeys items
Contexts ==
  UNION {[keys -> ContextValues] : keys \in {k \in SUBSET ContextKeys :
                                               Cardinality(k) <= MaxKeys}}

Items(context) == {<<key, context[key]>> : key \in DOMAIN context}

\* the context that is going to be sanitized is drawn at the start
InitSanitize ==
  /\ config \in {c \in MainConfigs : c.sdk_available}
  /\ observe = "events"
  /\ healthy = TRUE
  /\ InitGateway
  /\ san \in {[NoSan EXCEPT !.context = Items(context)] : context \in Contexts}

NextSanitize ==
  \/ \E key \in ContextKeys : add_sensitive_key(key)
  \/ SanitizeContext
  \/ GatewayException

SpecSanitize == InitSanitize /\ [][NextSanitize]_vars

\* the keys of a map, with the keys of its nested dicts
AllItems(items) ==
  items \cup UNION {item[2].inner : item \in {e \in items : e[2].text = "dict"}}

\* the words that are recognized as sensitive, whatever their letter case
SensitiveWords == {key.word : key \in get_sensitive_keys}

\* C21: the map sanitize_context returns, which is also the context an
\* error stores, gives "***REDACTED***" to each of its keys that matches a
\* built-in or runtime-added sensitive key in any letter case; it is a new
\* map, the input is passed through unchanged.
C21_TopLevelRedacted ==
  san.op # "none" =>
    /\ \A item \in san.result :
         item[1].word \in SensitiveWords =>
           item[2] = Text(REDACTED_PLACEHOLDER)
    /\ \A item \in san.context :
         item \in san.result \/ item[1].word \in SensitiveWords
                             \/ Key("_truncated") \in {e[1] : e \in san.result}

\* C21 as stated: no sensitive key of the result, nested dicts included,
\* carries a value that is not redacted.
C21_Original ==
  san.op # "none" =>
    \A item \in AllItems(san.result) :
      item[1].word \in SensitiveWords =>
        item[2] = Text(REDACTED_PLACEHOLDER)

\* an error stores a context whose upper-case PASSWORD and runtime-added
\* Host are both redacted
C21_Witness ==
  /\ san.op = "GatewayException"
  /\ <<[word |-> "password", cased |-> "upper"], Text("v")>> \in san.context
  /\ <<[word |-> "host", cased |-> "mixed"], Text("v")>> \in san.context
  /\ \A item \in san.result : item[2] = Text(REDACTED_PLACEHOLDER)

====
